---------------------------- MODULE Spec2Model ----------------------------
(***************************************************************************)
(* State-machine model of the QuarkChain p2p frame codec, application      *)
(* handshake and dispatch loop (p2p/qkchandle.go).                         *)
(*                                                                         *)
(* Endpoint "a" is the qkcRlp under study: its goroutines are modelled     *)
(* step by step (one step per lock operation / blocking I/O call).  The    *)
(* remote endpoint "b" runs the same frame codec on the matching           *)
(* cipher/MAC pair and is modelled with atomic frame writes and reads.     *)
(***************************************************************************)
EXTENDS Integers, Sequences, FiniteSets, TLC

(***************************************************************************)
(* Bytes, big-endian integers, stream cipher, MAC accumulator              *)
(***************************************************************************)
Byte == 0..255

Zeros(n) == [i \in 1..n |-> 0]

Bit(a, i) == (a \div (2 ^ i)) % 2

\* bitwise exclusive or of two bytes, tabulated once
XorTable ==
    [a \in Byte |-> [b \in Byte |->
        ((Bit(a, 0) + Bit(b, 0)) % 2)
        + 2 * ((Bit(a, 1) + Bit(b, 1)) % 2)
        + 4 * ((Bit(a, 2) + Bit(b, 2)) % 2)
        + 8 * ((Bit(a, 3) + Bit(b, 3)) % 2)
        + 16 * ((Bit(a, 4) + Bit(b, 4)) % 2)
        + 32 * ((Bit(a, 5) + Bit(b, 5)) % 2)
        + 64 * ((Bit(a, 6) + Bit(b, 6)) % 2)
        + 128 * ((Bit(a, 7) + Bit(b, 7)) % 2)]]

Xor(a, b) == XorTable[a][b]

\* binary.BigEndian.PutUint32: the four bytes of a uint32, most significant first
PutUint32(n) ==
    << (n \div 16777216) % 256, (n \div 65536) % 256, (n \div 256) % 256, n % 256 >>

\* binary.BigEndian.Uint32 of the first four bytes of b
Uint32(b) == b[1] * 16777216 + b[2] * 65536 + b[3] * 256 + b[4]

\* byte number n (from 0) of the key stream of the connection's stream cipher.
\* enc and dec of both endpoints are keyed alike; each keeps its own position.
KeyStream(n) == (n * 37 + 11) % 256

\* cipher.Stream.XORKeyStream from stream position pos: the transformed bytes
\* (the stream then stands at pos + Len(data))
XORKeyStream(pos, data) ==
    [i \in 1..Len(data) |-> Xor(data[i], KeyStream(pos + i - 1))]

HashMod == 65521

RECURSIVE HashWriteFrom(_, _, _)
\* the digest state after folding in data[i], data[i+1], ...
HashWriteFrom(h, data, i) ==
    IF i > Len(data) THEN h
    ELSE HashWriteFrom((h * 251 + data[i] + 1) % HashMod, data, i + 1)

\* hash.Hash.Write: fold the bytes of data into the running digest state h
HashWrite(h, data) == HashWriteFrom(h, data, 1)

\* hash.Hash.Sum(nil): the digest of what was written so far (the state is kept).
\* Only its first 16 bytes are ever used by the frame codec.
Sum(h) ==
    [i \in 1..16 |->
        IF i = 1 THEN h % 256
        ELSE IF i = 2 THEN (h \div 256) % 256
        ELSE (h * i + (h \div 256) + 29 * i) % 256]

\* cipher.Block.Encrypt of the MAC cipher on one 16-byte block (a keyed bijection,
\* stateless)
BlockEncrypt(block) ==
    [i \in 1..16 |-> (block[17 - i] * 5 + 7 * i + 3) % 256]

\* updateMAC(mac, block, seed): reseeds the accumulator with
\* Encrypt(mac.Sum) xor seed and returns the new state and the first 16 digest bytes
updateMAC(h, seed) ==
    LET aesbuf == BlockEncrypt(Sum(h))
        mixed == [i \in 1..16 |-> Xor(aesbuf[i], seed[i])]
        h2 == HashWrite(h, mixed)
    IN  [mac |-> h2, sum |-> Sum(h2)]

\* hmac.Equal: equal length and equal contents
hmacEqual(x, y) == x = y

(***************************************************************************)
(* snappy block format (github.com/golang/snappy), as used on frames       *)
(***************************************************************************)
maxUint24 == 16777215

Min(x, y) == IF x < y THEN x ELSE y

RECURSIVE UvarintAt(_, _, _, _)
\* binary.Uvarint(buf), reading byte i (from 1) with the value so far split into
\* its low 28 bits lo and the bits above them hi (hi saturates at 16, which is
\* already beyond 32 bits).  n is the number of bytes read, 0 when buf ends
\* inside the number, negative on a 64-bit overflow.
UvarintAt(buf, i, lo, hi) ==
    IF i > Len(buf) THEN [lo |-> 0, hi |-> 0, n |-> 0]
    ELSE IF i = 11 THEN [lo |-> 0, hi |-> 0, n |-> 0 - i]
    ELSE
        LET b == buf[i]
            p == b % 128
            lo2 == IF i <= 4 THEN lo + p * (128 ^ (i - 1)) ELSE lo
            hi2 == IF i <= 4 \/ p = 0 THEN hi
                   ELSE IF i = 5 THEN Min(16, hi + p)
                   ELSE 16
        IN  IF b < 128
            THEN IF i = 10 /\ b > 1
                 THEN [lo |-> 0, hi |-> 0, n |-> 0 - i]
                 ELSE [lo |-> lo2, hi |-> hi2, n |-> i]
            ELSE UvarintAt(buf, i + 1, lo2, hi2)

\* snappy.DecodedLen / decodedLen: the declared decoded length and the size of the
\* length header.  err is "corrupt" for a bad varint or a length above 32 bits.
\* size is exact up to 2^31-1 and saturates there.
DecodedLen(src) ==
    LET u == UvarintAt(src, 1, 0, 0)
    IN  IF u.n <= 0 \/ u.hi > 15
        THEN [err |-> "corrupt", size |-> 0, n |-> 0]
        ELSE [err |-> "nil",
              size |-> IF u.hi >= 8 THEN 2147483647 ELSE u.hi * 268435456 + u.lo,
              n |-> u.n]

\* little-endian value of src[from+1 .. from+k], k <= 4, saturating at 2^31-1
LittleEndian(src, from, k) ==
    LET b(j) == IF j <= k THEN src[from + j] ELSE 0
    IN  b(1) + 256 * b(2) + 65536 * b(3) + 16777216 * Min(b(4), 127)

RECURSIVE CopyBack(_, _, _)
\* the overlapping forward copy of a copy element: length bytes from offset back
CopyBack(out, offset, length) ==
    IF length = 0 THEN out
    ELSE CopyBack(Append(out, out[Len(out) + 1 - offset]), offset, length - 1)

RECURSIVE snappyDecodeLoop(_, _, _, _)
\* snappy's decode(dst, src): s bytes of src consumed, out = dst[:d] written so far,
\* dLen = len(dst).  ok is FALSE for decodeErrCodeCorrupt.
snappyDecodeLoop(dLen, src, s, out) ==
    IF s >= Len(src)
    THEN [ok |-> Len(out) = dLen, out |-> out]
    ELSE
        LET tag == src[s + 1]
            kind == tag % 4
            x == tag \div 4
        IN  IF kind = 0
            THEN \* tagLiteral
                LET extra == IF x < 60 THEN 0 ELSE x - 59
                    s2 == s + 1 + extra
                IN  IF s2 > Len(src) THEN [ok |-> FALSE, out |-> << >>]
                    ELSE
                        LET xx == IF x < 60 THEN x ELSE LittleEndian(src, s + 1, extra)
                            length == IF xx >= 2147483647 THEN xx ELSE xx + 1
                        IN  IF length > dLen - Len(out) \/ length > Len(src) - s2
                            THEN [ok |-> FALSE, out |-> << >>]
                            ELSE snappyDecodeLoop(dLen, src, s2 + length,
                                     out \o SubSeq(src, s2 + 1, s2 + length))
            ELSE
                LET hdr == IF kind = 1 THEN 2 ELSE IF kind = 2 THEN 3 ELSE 5
                    s2 == s + hdr
                IN  IF s2 > Len(src) THEN [ok |-> FALSE, out |-> << >>]
                    ELSE
                        LET length == IF kind = 1 THEN 4 + (x % 8) ELSE 1 + x
                            offset == IF kind = 1 THEN (tag \div 32) * 256 + src[s2]
                                      ELSE LittleEndian(src, s + 1, hdr - 1)
                        IN  IF offset <= 0 \/ Len(out) < offset \/ length > dLen - Len(out)
                            THEN [ok |-> FALSE, out |-> << >>]
                            ELSE snappyDecodeLoop(dLen, src, s2,
                                     CopyBack(out, offset, length))

\* snappy.Decode(nil, src)
snappyDecode(src) ==
    LET d == DecodedLen(src)
    IN  IF d.err # "nil" THEN [err |-> d.err, out |-> << >>]
        ELSE LET r == snappyDecodeLoop(d.size, src, d.n, << >>)
             IN  IF ~r.ok THEN [err |-> "corrupt", out |-> << >>]
                 ELSE [err |-> "nil", out |-> r.out]

RECURSIVE PutUvarint(_)
\* binary.PutUvarint
PutUvarint(n) ==
    IF n < 128 THEN << n >> ELSE << 128 + (n % 128) >> \o PutUvarint(n \div 128)

\* snappy.Encode(nil, src) for an input shorter than minNonLiteralBlockSize (17):
\* the length as a varint, then the input as one literal element
snappyEncode(src) ==
    IF Len(src) = 0 THEN PutUvarint(0)
    ELSE PutUvarint(Len(src)) \o << (Len(src) - 1) * 4 >> \o src

(***************************************************************************)
(* Messages and the frame codec's steps, as functions of the direction     *)
(* state they read and write                                               *)
(***************************************************************************)
\* p2p.Msg: the Size field and the bytes its Payload reader yields.
\* NoPayload stands for the nil Payload of the zero Msg.
NoPayload == << 256 >>

ZeroMsg == [Size |-> 0, Payload |-> NoPayload]

NewMsg(body) == [Size |-> Len(body), Payload |-> body]

\* faulty variant: the payload is compressed but Size stays the uncompressed length
writeCompress_keepSize(snap, msg) ==
    IF snap
    THEN IF msg.Size > maxUint24
         THEN [err |-> "errPlainMessageTooLarge", msg |-> msg]
         ELSE [err |-> "nil",
               msg |-> [Size |-> msg.Size, Payload |-> snappyEncode(msg.Payload)]]
    ELSE [err |-> "nil", msg |-> msg]

\* faulty variant: the compression stage without the size check
writeCompress_noSizeCheck(snap, msg) ==
    IF snap
    THEN LET payload == snappyEncode(msg.Payload)
         IN  [err |-> "nil", msg |-> [Size |-> Len(payload), Payload |-> payload]]
    ELSE [err |-> "nil", msg |-> msg]

\* writeQKCMsg, lines 164-174: the compression stage.  err is "nil" or
\* errPlainMessageTooLarge; msg is the message the frame is then built from.
writeCompress(snap, msg) ==
    IF snap
    THEN IF msg.Size > maxUint24
         THEN [err |-> "errPlainMessageTooLarge", msg |-> msg]
         ELSE LET payload == snappyEncode(msg.Payload)
              IN  [err |-> "nil", msg |-> [Size |-> Len(payload), Payload |-> payload]]
    ELSE [err |-> "nil", msg |-> msg]

\* writeQKCMsg, lines 176-181: the 32 header bytes (encrypted length block and its
\* MAC) and the egress state after building them
writeHeader(encPos, egress, msg) ==
    LET headBuf == PutUint32(msg.Size) \o Zeros(12)
        encrypted == XORKeyStream(encPos, headBuf)
        m == updateMAC(egress, encrypted)
    IN  [bytes |-> encrypted \o m.sum, enc |-> encPos + 16, mac |-> m.mac]

\* writeQKCMsg, lines 188-198: the encrypted body, which is also written into the
\* egress MAC
writeBody(encPos, egress, msg) ==
    LET c == XORKeyStream(encPos, msg.Payload)
    IN  [bytes |-> c, enc |-> encPos + Len(c), mac |-> HashWrite(egress, c)]

\* faulty variant: the frame MAC is sent but the running egress MAC is not advanced
writeFrameMAC_noAdvance(egress) ==
    LET m == updateMAC(egress, Sum(egress))
    IN  [bytes |-> m.sum, mac |-> egress]

\* writeQKCMsg, lines 202-204: the trailing frame MAC
writeFrameMAC(egress) ==
    LET m == updateMAC(egress, Sum(egress))
    IN  [bytes |-> m.sum, mac |-> m.mac]

\* faulty variant: the header MAC is computed but not compared
readHeader_noCheck(decPos, ingress, headBuf) ==
    LET m == updateMAC(ingress, SubSeq(headBuf, 1, 16))
        plain == XORKeyStream(decPos, SubSeq(headBuf, 1, 16))
    IN  [err |-> "nil", mac |-> m.mac, dec |-> decPos + 16, fSize |-> Uint32(plain)]

\* readQKCMsg, lines 108-114: check the header MAC of the 32 bytes headBuf and
\* decrypt the length
readHeader(decPos, ingress, headBuf) ==
    LET m == updateMAC(ingress, SubSeq(headBuf, 1, 16))
        plain == XORKeyStream(decPos, SubSeq(headBuf, 1, 16))
    IN  IF ~hmacEqual(m.sum, SubSeq(headBuf, 17, 32))
        THEN [err |-> "bad header MAC", mac |-> m.mac, dec |-> decPos, fSize |-> 0]
        ELSE [err |-> "nil", mac |-> m.mac, dec |-> decPos + 16, fSize |-> Uint32(plain)]

\* readQKCMsg, lines 122-123: fold the still encrypted body into the ingress MAC
readBody(ingress, frameBuf) ==
    LET h == HashWrite(ingress, frameBuf)
    IN  [mac |-> h, fMacSeed |-> Sum(h)]

\* faulty variant: the declared length is not checked against maxUint24
readDecompress_noBound(content) ==
    LET d == DecodedLen(content)
        drained == [Size |-> Len(content), Payload |-> << >>]
    IN  IF d.err # "nil"
        THEN [err |-> "snappy: corrupt input", msg |-> drained, decoded |-> FALSE]
        ELSE LET r == snappyDecode(content)
             IN  IF r.err # "nil"
                 THEN [err |-> "snappy: corrupt input", msg |-> drained, decoded |-> TRUE]
                 ELSE [err |-> "nil", msg |-> [Size |-> d.size, Payload |-> r.out],
                       decoded |-> TRUE]

\* readQKCMsg, lines 141-158: the decompression stage on the decrypted frame
\* content.  decoded tells whether snappy.Decode was called.
readDecompress(content) ==
    LET d == DecodedLen(content)
        \* the Payload reader was drained by ioutil.ReadAll on line 142
        drained == [Size |-> Len(content), Payload |-> << >>]
    IN  IF d.err # "nil"
        THEN [err |-> "snappy: corrupt input", msg |-> drained, decoded |-> FALSE]
        ELSE IF d.size > maxUint24
        THEN [err |-> "errPlainMessageTooLarge", msg |-> drained, decoded |-> FALSE]
        ELSE LET r == snappyDecode(content)
             IN  IF r.err # "nil"
                 THEN [err |-> "snappy: corrupt input", msg |-> drained, decoded |-> TRUE]
                 ELSE [err |-> "nil", msg |-> [Size |-> d.size, Payload |-> r.out],
                       decoded |-> TRUE]

\* faulty variant: the body is handed on without being decrypted
readFrameMAC_noDecrypt(decPos, ingress, snap, frameBuf, fMacSeed, mac16) ==
    LET m == updateMAC(ingress, fMacSeed)
    IN  IF ~hmacEqual(m.sum, mac16)
        THEN [err |-> "bad frame MAC", mac |-> m.mac, dec |-> decPos,
              msg |-> ZeroMsg, decoded |-> FALSE]
        ELSE IF snap
        THEN LET r == readDecompress(frameBuf)
             IN  [err |-> r.err, mac |-> m.mac, dec |-> decPos,
                  msg |-> r.msg, decoded |-> r.decoded]
        ELSE [err |-> "nil", mac |-> m.mac, dec |-> decPos,
              msg |-> NewMsg(frameBuf), decoded |-> FALSE]

\* faulty variant: the frame MAC is computed but not compared
readFrameMAC_noCheck(decPos, ingress, snap, frameBuf, fMacSeed, mac16) ==
    LET m == updateMAC(ingress, fMacSeed)
        content == XORKeyStream(decPos, frameBuf)
    IN  IF snap
        THEN LET r == readDecompress(content)
             IN  [err |-> r.err, mac |-> m.mac, dec |-> decPos + Len(frameBuf),
                  msg |-> r.msg, decoded |-> r.decoded]
        ELSE [err |-> "nil", mac |-> m.mac, dec |-> decPos + Len(frameBuf),
              msg |-> NewMsg(content), decoded |-> FALSE]

\* readQKCMsg, lines 127-160: check the frame MAC mac16 against the ingress state,
\* decrypt the body and build the Msg
readFrameMAC(decPos, ingress, snap, frameBuf, fMacSeed, mac16) ==
    LET m == updateMAC(ingress, fMacSeed)
        content == XORKeyStream(decPos, frameBuf)
    IN  IF ~hmacEqual(m.sum, mac16)
        THEN [err |-> "bad frame MAC", mac |-> m.mac, dec |-> decPos,
              msg |-> ZeroMsg, decoded |-> FALSE]
        ELSE IF snap
        THEN LET r == readDecompress(content)
             IN  [err |-> r.err, mac |-> m.mac, dec |-> decPos + Len(frameBuf),
                  msg |-> r.msg, decoded |-> r.decoded]
        ELSE [err |-> "nil", mac |-> m.mac, dec |-> decPos + Len(frameBuf),
              msg |-> NewMsg(content), decoded |-> FALSE]

(***************************************************************************)
(* The connection: endpoint "a" (the qkcRlp under study) and its peer "b"  *)
(***************************************************************************)
Endpoints == {"a", "b"}

Peer(e) == IF e = "a" THEN "b" ELSE "a"

\* goroutines of endpoint a: the connection's own goroutine (handshake, then the
\* protocol's Run function) and two goroutines that send messages
Writers == {"w1", "w2"}

Threads == {"proto"} \cup Writers

MaxPeerFrames == 2

VARIABLES
    enc,            \* q.rw.enc of each endpoint: position in the key stream
    dec,            \* q.rw.dec
    egressMAC,      \* q.rw.egressMAC
    ingressMAC,     \* q.rw.ingressMAC
    snappy,         \* q.rw.snappy
    wire,           \* q.rw.conn: wire[e] = bytes written by e and not yet read
    closed,         \* the connection was closed underneath the codec
    readDeadline,   \* a's fd has a read deadline armed
    writeDeadline,  \* a's fd has a write deadline armed
    rmu,            \* q.rmu of a: the goroutine holding it, or "free"
    wmu,            \* q.wmu of a
    wcall,          \* per goroutine of a: the WriteMsg call it is in
    rcall,          \* the ReadMsg call of a's connection goroutine
    pc,             \* where a's connection goroutine stands
    hs,             \* what doProtoHandshake returned
    run,            \* what qkcMsgHandle returned
    cur,            \* the decoded message the dispatch loop is routing
    calls,          \* handler invocations, in order
    peer,           \* b: frames sent, messages read, whether it gave up
    hist,           \* history: what crossed the connection, for the properties
    slave           \* a SlaveConfig on its way to JSON text and back

vars == << enc, dec, egressMAC, ingressMAC, snappy, wire, closed, readDeadline,
           writeDeadline, rmu, wmu, wcall, rcall, pc, hs, run, cur, calls, peer, hist,
           slave >>

(***************************************************************************)
(* Domain messages and the opcode registry                                 *)
(***************************************************************************)
\* the registry: opcodes with a serializer, with a fire-and-forget handler, with
\* an RPC handler
OPSerializerMap == {0, 2, 3, 4}

OPNonRPCMap == {0, 4}

OpRPCMap == {2, 4}

\* DecodeQKCMsg: opcode, correlation id, data; an error on a body too short to
\* hold the fixed fields
DecodeQKCMsg(body) ==
    IF Len(body) < 2
    THEN [err |-> "decode qkc msg err", op |-> 0, rpcID |-> 0, data |-> << >>]
    ELSE [err |-> "nil", op |-> body[1], rpcID |-> body[2],
          data |-> SubSeq(body, 3, Len(body))]

\* makeMsg(Hello, 0, HelloCmd{...}): opcode Hello, rpc id 0, the serialized command
hello == NewMsg(<< 0, 0, 24 >>)

\* faulty variant: the RPC lookup is not an else branch of the fire-and-forget lookup
dispatch_fallthrough(qkcMsg) ==
    (IF qkcMsg.op \in OPNonRPCMap
     THEN << [kind |-> "nonrpc", op |-> qkcMsg.op, data |-> qkcMsg.data] >>
     ELSE << >>)
    \o (IF qkcMsg.op \in OpRPCMap
        THEN << [kind |-> "rpc", op |-> qkcMsg.op, data |-> qkcMsg.data] >>
        ELSE << >>)

\* faulty variant: the RPC map is looked up before the fire-and-forget map
dispatch_rpcFirst(qkcMsg) ==
    IF qkcMsg.op \in OpRPCMap
    THEN << [kind |-> "rpc", op |-> qkcMsg.op, data |-> qkcMsg.data] >>
    ELSE IF qkcMsg.op \in OPNonRPCMap
    THEN << [kind |-> "nonrpc", op |-> qkcMsg.op, data |-> qkcMsg.data] >>
    ELSE << >>

\* the handler invocation of qkcMsgHandle, lines 55-61, for a decoded message:
\* the calls it makes
dispatch(qkcMsg) ==
    IF qkcMsg.op \in OPNonRPCMap
    THEN << [kind |-> "nonrpc", op |-> qkcMsg.op, data |-> qkcMsg.data] >>
    ELSE IF qkcMsg.op \in OpRPCMap
    THEN << [kind |-> "rpc", op |-> qkcMsg.op, data |-> qkcMsg.data] >>
    ELSE << >>

\* faulty variant: a message that does not decode is routed like any other
handleRead_ignoreDecodeErr(rerr, msg) ==
    IF rerr # "nil"
    THEN [ret |-> rerr, cause |-> "read", qkcMsg |-> DecodeQKCMsg(<< >>)]
    ELSE LET qkcMsg == DecodeQKCMsg(msg.Payload)
         IN  IF qkcMsg.op \notin OPSerializerMap
             THEN [ret |-> qkcMsg.err, cause |-> "op", qkcMsg |-> qkcMsg]
             ELSE [ret |-> "continue", cause |-> "", qkcMsg |-> qkcMsg]

\* faulty variant: a recognized opcode without a handler is reported as an error
handleRead_requireHandler(rerr, msg) ==
    IF rerr # "nil"
    THEN [ret |-> rerr, cause |-> "read", qkcMsg |-> DecodeQKCMsg(<< >>)]
    ELSE LET qkcMsg == DecodeQKCMsg(msg.Payload)
         IN  IF qkcMsg.err # "nil"
             THEN [ret |-> qkcMsg.err, cause |-> "decode", qkcMsg |-> qkcMsg]
             ELSE IF qkcMsg.op \notin OPSerializerMap
             THEN [ret |-> qkcMsg.err, cause |-> "op", qkcMsg |-> qkcMsg]
             ELSE IF qkcMsg.op \notin (OPNonRPCMap \cup OpRPCMap)
             THEN [ret |-> "no handler", cause |-> "op", qkcMsg |-> qkcMsg]
             ELSE [ret |-> "continue", cause |-> "", qkcMsg |-> qkcMsg]

\* qkcMsgHandle, lines 33-53, on what ReadMsg returned: the error the loop returns
\* with ("continue" when it goes on to the handlers) and the decoded message
handleRead(rerr, msg) ==
    IF rerr # "nil"
    THEN [ret |-> rerr, cause |-> "read", qkcMsg |-> DecodeQKCMsg(<< >>)]
    ELSE LET qkcMsg == DecodeQKCMsg(msg.Payload)
         IN  IF qkcMsg.err # "nil"
             THEN [ret |-> qkcMsg.err, cause |-> "decode", qkcMsg |-> qkcMsg]
             ELSE IF qkcMsg.op \notin OPSerializerMap
             THEN \* "return err" with the nil err of the successful decode
                  [ret |-> qkcMsg.err, cause |-> "op", qkcMsg |-> qkcMsg]
             ELSE [ret |-> "continue", cause |-> "", qkcMsg |-> qkcMsg]

\* doProtoHandshake, lines 232-243, on what ReadMsg returned: the error of ReadMsg
\* is overwritten by that of ioutil.ReadAll, which panics on the nil Payload of a
\* zero Msg
handshakeRead(rerr, msg) ==
    IF msg.Payload = NoPayload
    THEN [result |-> "panic", err |-> "nil pointer dereference"]
    ELSE LET qkcMsg == DecodeQKCMsg(msg.Payload)
         IN  IF qkcMsg.err # "nil"
             THEN [result |-> "error", err |-> qkcMsg.err]
             ELSE [result |-> "ok", err |-> "nil"]

(***************************************************************************)
(* Inputs                                                                  *)
(***************************************************************************)
\* message bodies the peer sends
PeerBodies ==
    { << >>, << 0, 0, 24 >>, << 2, 5 >>, << 3, 0 >>, << 4, 0, 7 >>,
      << 128, 128, 128, 8 >> }

\* messages a's sending goroutines pass to WriteMsg
WriterMsgs == { NewMsg(<< 2, 5 >>), NewMsg(<< >>) }

WellFormed(msg) == msg.Payload # NoPayload /\ msg.Size = Len(msg.Payload)

\* a bit flipped in transit in one of the two MACs of a frame
NoFlip == [mac |-> "none", byte |-> 1, bit |-> 0]

Flips ==
    [mac : {"header", "frame"}, byte : {1, 16}, bit : {7}]

FlipBit(bytes, idx, bit) ==
    [bytes EXCEPT ![idx] = Xor(bytes[idx], 2 ^ bit)]

\* the value of a statement's result, computed once before the next statement
Only(S) == CHOOSE x \in S : TRUE

\* writeQKCMsg as a whole, every conn.Write succeeding: the frame's three parts and
\* the egress state after it
writeQKCMsg(encPos, egress, snap, msg) ==
    Only({ IF c.err # "nil"
           THEN [err |-> c.err, header |-> << >>, body |-> << >>, trailer |-> << >>,
                 enc |-> encPos, mac |-> egress]
           ELSE Only({ Only({ Only({ [err |-> "nil", header |-> h.bytes,
                                      body |-> b.bytes, trailer |-> m.bytes,
                                      enc |-> b.enc, mac |-> m.mac] :
                                     m \in { writeFrameMAC(b.mac) } }) :
                              b \in { writeBody(h.enc, h.mac, c.msg) } }) :
                       h \in { writeHeader(encPos, egress, c.msg) } }) :
           c \in { writeCompress(snap, msg) } })

\* readQKCMsg as a whole on the bytes buf that have arrived: need is TRUE when an
\* io.ReadFull would still block; n is the number of bytes consumed
readQKCMsg(decPos, ingress, snap, buf) ==
    IF Len(buf) < 32
    THEN [need |-> TRUE, err |-> "nil", msg |-> ZeroMsg, n |-> 0,
          dec |-> decPos, mac |-> ingress, decoded |-> FALSE]
    ELSE
        Only({ IF h.err # "nil"
               THEN [need |-> FALSE, err |-> h.err, msg |-> ZeroMsg, n |-> 32,
                     dec |-> h.dec, mac |-> h.mac, decoded |-> FALSE]
               ELSE IF Len(buf) < 32 + h.fSize + 16
               THEN [need |-> TRUE, err |-> "nil", msg |-> ZeroMsg, n |-> 0,
                     dec |-> decPos, mac |-> ingress, decoded |-> FALSE]
               ELSE
                   Only({ Only({ [need |-> FALSE, err |-> r.err, msg |-> r.msg,
                                  n |-> 48 + h.fSize, dec |-> r.dec, mac |-> r.mac,
                                  decoded |-> r.decoded] :
                                 r \in { readFrameMAC(h.dec, b.mac, snap,
                                             SubSeq(buf, 33, 32 + h.fSize), b.fMacSeed,
                                             SubSeq(buf, 33 + h.fSize, 48 + h.fSize)) } }) :
                          b \in { readBody(h.mac, SubSeq(buf, 33, 32 + h.fSize)) } }) :
               h \in { readHeader(decPos, ingress, SubSeq(buf, 1, 32)) } })

(***************************************************************************)
(* SlaveConfig and its JSON form.  Go strings and JSON text are sequences  *)
(* of bytes; the strings of the model hold code points below U+0800 or     *)
(* bytes that are not UTF-8 at all.                                        *)
(***************************************************************************)
\* types.ChainMask: a mask value behind NewChainMask and GetMask
NewChainMask(value) == [mask |-> value]

GetMask(m) == m.mask

DefaultWSPort == 38590

ZeroSlaveConfig ==
    [IP |-> << >>, Port |-> 0, ID |-> << >>, WSPort |-> 0, ChainMaskList |-> << >>]

\* the JSON names of the fields, from the struct tags
TagHost == << 72, 79, 83, 84 >>

TagPort == << 80, 79, 82, 84 >>

TagID == << 73, 68 >>

TagWSPort == << 87, 69, 66, 83, 79, 67, 75, 69, 84, 95, 74, 83, 79, 78, 95, 82, 80, 67, 95, 80, 79, 82, 84 >>

TagChainMaskList == << 67, 72, 65, 73, 78, 95, 77, 65, 83, 75, 95, 76, 73, 83, 84 >>

\* a lower-case hexadecimal digit, and the escape \uXXXX of a code point
HexDigit(d) == IF d < 10 THEN 48 + d ELSE 87 + d

EscapeU(c) ==
    << 92, 117, HexDigit(c \div 4096), HexDigit((c \div 256) % 16),
       HexDigit((c \div 16) % 16), HexDigit(c % 16) >>

\* s[i], s[i+1] is a two-byte UTF-8 sequence
TwoByteRune(s, i) ==
    i < Len(s) /\ s[i] \in 194..223 /\ s[i + 1] \in 128..191

RECURSIVE ValidUTF8From(_, _)
ValidUTF8From(s, i) ==
    IF i > Len(s) THEN TRUE
    ELSE IF s[i] < 128 THEN ValidUTF8From(s, i + 1)
    ELSE TwoByteRune(s, i) /\ ValidUTF8From(s, i + 2)

ValidUTF8(s) == ValidUTF8From(s, 1)

\* json.Marshal of a string, from byte i on: quotes, backslashes, control
\* characters and <, >, & are escaped, bytes that are not UTF-8 become U+FFFD
RECURSIVE jsonStringFrom(_, _)
jsonStringFrom(s, i) ==
    IF i > Len(s) THEN << >>
    ELSE IF s[i] \in {34, 92} THEN << 92, s[i] >> \o jsonStringFrom(s, i + 1)
    ELSE IF s[i] = 10 THEN << 92, 110 >> \o jsonStringFrom(s, i + 1)
    ELSE IF s[i] = 13 THEN << 92, 114 >> \o jsonStringFrom(s, i + 1)
    ELSE IF s[i] = 9 THEN << 92, 116 >> \o jsonStringFrom(s, i + 1)
    ELSE IF s[i] < 32 \/ s[i] \in {60, 62, 38}
    THEN EscapeU(s[i]) \o jsonStringFrom(s, i + 1)
    ELSE IF s[i] < 128 THEN << s[i] >> \o jsonStringFrom(s, i + 1)
    ELSE IF TwoByteRune(s, i) THEN << s[i], s[i + 1] >> \o jsonStringFrom(s, i + 2)
    ELSE EscapeU(65533) \o jsonStringFrom(s, i + 1)

jsonString(s) == << 34 >> \o jsonStringFrom(s, 1) \o << 34 >>

\* json.Marshal of an unsigned integer: its decimal digits
RECURSIVE FormatUint(_)
FormatUint(n) ==
    IF n < 10 THEN << 48 + n >> ELSE FormatUint(n \div 10) \o << 48 + (n % 10) >>

\* json.Marshal of a []uint32 that is not nil
RECURSIVE jsonUintsFrom(_, _)
jsonUintsFrom(list, i) ==
    IF i > Len(list) THEN << >>
    ELSE (IF i > 1 THEN << 44 >> ELSE << >>) \o FormatUint(list[i])
         \o jsonUintsFrom(list, i + 1)

jsonUints(list) == << 91 >> \o jsonUintsFrom(list, 1) \o << 93 >>

\* json.Marshal of the struct MarshalJSON builds: the fields of the embedded
\* alias in declaration order, ChainMaskList left out by its tag, then the masks
jsonMarshal(jsonConfig) ==
    << 123 >>
    \o jsonString(TagHost) \o << 58 >> \o jsonString(jsonConfig.IP) \o << 44 >>
    \o jsonString(TagPort) \o << 58 >> \o FormatUint(jsonConfig.Port) \o << 44 >>
    \o jsonString(TagID) \o << 58 >> \o jsonString(jsonConfig.ID) \o << 44 >>
    \o jsonString(TagWSPort) \o << 58 >> \o FormatUint(jsonConfig.WSPort) \o << 44 >>
    \o jsonString(TagChainMaskList) \o << 58 >> \o jsonUints(jsonConfig.ShardMaskList)
    \o << 125 >>

\* SlaveConfig.MarshalJSON, lines 19-29
MarshalJSON(s) ==
    jsonMarshal([IP |-> s.IP, Port |-> s.Port, ID |-> s.ID, WSPort |-> s.WSPort,
                 ShardMaskList |-> [i \in 1..Len(s.ChainMaskList) |->
                                      GetMask(s.ChainMaskList[i])]])

\* the value of a hexadecimal digit, -1 for another byte
HexVal(b) ==
    IF b \in 48..57 THEN b - 48
    ELSE IF b \in 97..102 THEN b - 87
    ELSE IF b \in 65..70 THEN b - 55
    ELSE 0 - 1

\* the UTF-8 bytes of a code point of the basic plane; a surrogate becomes U+FFFD
EncodeRune(c) ==
    IF c < 128 THEN << c >>
    ELSE IF c < 2048 THEN << 192 + (c \div 64), 128 + (c % 64) >>
    ELSE IF c \in 55296..57343 THEN << 239, 191, 189 >>
    ELSE << 224 + (c \div 4096), 128 + ((c \div 64) % 64), 128 + (c % 64) >>

SyntaxError(i) == [err |-> "invalid character", val |-> << >>, next |-> i]

\* json.Unmarshal of a string literal whose opening quote is at i - 1: the bytes
\* of the string and the index after the closing quote
RECURSIVE unquote(_, _, _)
unquote(buf, i, acc) ==
    IF i > Len(buf) THEN [err |-> "unexpected end of JSON input", val |-> acc, next |-> i]
    ELSE IF buf[i] = 34 THEN [err |-> "nil", val |-> acc, next |-> i + 1]
    ELSE IF buf[i] = 92
    THEN IF i + 1 > Len(buf) THEN SyntaxError(i)
         ELSE IF buf[i + 1] = 117
         THEN IF i + 5 > Len(buf) \/ \E k \in 2..5 : HexVal(buf[i + k]) < 0
              THEN SyntaxError(i)
              ELSE unquote(buf, i + 6,
                           acc \o EncodeRune((4096 * HexVal(buf[i + 2]))
                                             + (256 * HexVal(buf[i + 3]))
                                             + (16 * HexVal(buf[i + 4]))
                                             + HexVal(buf[i + 5])))
         ELSE IF buf[i + 1] \in {34, 92, 47} THEN unquote(buf, i + 2, Append(acc, buf[i + 1]))
         ELSE IF buf[i + 1] = 110 THEN unquote(buf, i + 2, Append(acc, 10))
         ELSE IF buf[i + 1] = 114 THEN unquote(buf, i + 2, Append(acc, 13))
         ELSE IF buf[i + 1] = 116 THEN unquote(buf, i + 2, Append(acc, 9))
         ELSE IF buf[i + 1] = 98 THEN unquote(buf, i + 2, Append(acc, 8))
         ELSE IF buf[i + 1] = 102 THEN unquote(buf, i + 2, Append(acc, 12))
         ELSE SyntaxError(i)
    ELSE IF buf[i] < 32 THEN SyntaxError(i)
    ELSE IF buf[i] < 128 THEN unquote(buf, i + 1, Append(acc, buf[i]))
    ELSE IF TwoByteRune(buf, i) THEN unquote(buf, i + 2, acc \o << buf[i], buf[i + 1] >>)
    ELSE unquote(buf, i + 1, acc \o EncodeRune(65533))

\* the index after the digits that start at i
RECURSIVE scanDigits(_, _)
scanDigits(buf, i) ==
    IF i <= Len(buf) /\ buf[i] \in 48..57 THEN scanDigits(buf, i + 1) ELSE i

\* strconv.ParseUint of the digits buf[i..j]
RECURSIVE ParseUint(_, _, _)
ParseUint(buf, i, j) ==
    IF j < i THEN 0 ELSE (10 * ParseUint(buf, i, j - 1)) + (buf[j] - 48)

\* json.Unmarshal of a number literal at i into an unsigned integer
parseNumber(buf, i) ==
    LET j == scanDigits(buf, i)
    IN  IF j = i \/ (buf[i] = 48 /\ j > i + 1)
        THEN SyntaxError(i)
        ELSE [err |-> "nil", val |-> ParseUint(buf, i, j - 1), next |-> j]

\* json.Unmarshal of the elements of an array of numbers, the first of them at i
RECURSIVE parseUints(_, _, _)
parseUints(buf, i, acc) ==
    LET n == parseNumber(buf, i)
    IN  IF n.err # "nil" THEN n
        ELSE IF n.next > Len(buf) THEN SyntaxError(n.next)
        ELSE IF buf[n.next] = 44 THEN parseUints(buf, n.next + 1, Append(acc, n.val))
        ELSE IF buf[n.next] = 93
        THEN [err |-> "nil", val |-> Append(acc, n.val), next |-> n.next + 1]
        ELSE SyntaxError(n.next)

\* json.Unmarshal of the value at i: a string, a number or an array of numbers
parseValue(buf, i) ==
    IF i > Len(buf) THEN [kind |-> "", err |-> "unexpected end of JSON input",
                          val |-> << >>, next |-> i]
    ELSE IF buf[i] = 34
    THEN LET r == unquote(buf, i + 1, << >>)
         IN  [kind |-> "string", err |-> r.err, val |-> r.val, next |-> r.next]
    ELSE IF buf[i] \in 48..57
    THEN LET r == parseNumber(buf, i)
         IN  [kind |-> "number", err |-> r.err, val |-> r.val, next |-> r.next]
    ELSE IF buf[i] = 91
    THEN IF i < Len(buf) /\ buf[i + 1] = 93
         THEN [kind |-> "array", err |-> "nil", val |-> << >>, next |-> i + 2]
         ELSE LET r == parseUints(buf, i + 1, << >>)
              IN  [kind |-> "array", err |-> r.err, val |-> r.val, next |-> r.next]
    ELSE [kind |-> "", err |-> "invalid character", val |-> << >>, next |-> i]

maxUint16 == 65535

\* json.Unmarshal stores the value v of the member named key in the struct that
\* UnmarshalJSON declares; a member with another name is skipped
setField(jsonConfig, key, v) ==
    IF key = TagHost
    THEN IF v.kind = "string"
         THEN [err |-> "nil", val |-> [jsonConfig EXCEPT !.IP = v.val]]
         ELSE [err |-> "cannot unmarshal", val |-> jsonConfig]
    ELSE IF key = TagID
    THEN IF v.kind = "string"
         THEN [err |-> "nil", val |-> [jsonConfig EXCEPT !.ID = v.val]]
         ELSE [err |-> "cannot unmarshal", val |-> jsonConfig]
    ELSE IF key = TagPort
    THEN IF v.kind = "number" /\ v.val <= maxUint16
         THEN [err |-> "nil", val |-> [jsonConfig EXCEPT !.Port = v.val]]
         ELSE [err |-> "cannot unmarshal", val |-> jsonConfig]
    ELSE IF key = TagWSPort
    THEN IF v.kind = "number" /\ v.val <= maxUint16
         THEN [err |-> "nil", val |-> [jsonConfig EXCEPT !.WSPort = v.val]]
         ELSE [err |-> "cannot unmarshal", val |-> jsonConfig]
    ELSE IF key = TagChainMaskList
    THEN IF v.kind = "array"
         THEN [err |-> "nil", val |-> [jsonConfig EXCEPT !.ChainMaskList = v.val]]
         ELSE [err |-> "cannot unmarshal", val |-> jsonConfig]
    ELSE [err |-> "nil", val |-> jsonConfig]

\* json.Unmarshal of the members of an object, the name of the first of them at i
RECURSIVE parseMembers(_, _, _)
parseMembers(buf, i, jsonConfig) ==
    IF i > Len(buf) \/ buf[i] # 34
    THEN [err |-> "invalid character", val |-> jsonConfig]
    ELSE LET k == unquote(buf, i + 1, << >>)
         IN  IF k.err # "nil" THEN [err |-> k.err, val |-> jsonConfig]
             ELSE IF k.next > Len(buf) \/ buf[k.next] # 58
             THEN [err |-> "invalid character", val |-> jsonConfig]
             ELSE LET v == parseValue(buf, k.next + 1)
                      f == setField(jsonConfig, k.val, v)
                  IN  IF v.err # "nil" THEN [err |-> v.err, val |-> jsonConfig]
                      ELSE IF f.err # "nil" THEN f
                      ELSE IF v.next > Len(buf)
                      THEN [err |-> "unexpected end of JSON input", val |-> jsonConfig]
                      ELSE IF buf[v.next] = 44 THEN parseMembers(buf, v.next + 1, f.val)
                      ELSE IF buf[v.next] = 125 /\ v.next = Len(buf) THEN f
                      ELSE [err |-> "invalid character", val |-> jsonConfig]

\* json.Unmarshal(input, &jsonConfig), line 36, jsonConfig being the zero value
jsonUnmarshal(input) ==
    LET zero == [IP |-> << >>, Port |-> 0, ID |-> << >>, WSPort |-> 0,
                 ChainMaskList |-> << >>]
    IN  IF Len(input) < 2 \/ input[1] # 123
        THEN [err |-> "invalid character", val |-> zero]
        ELSE IF input = << 123, 125 >> THEN [err |-> "nil", val |-> zero]
        ELSE parseMembers(input, 2, zero)

\* faulty variant: the websocket port read from the JSON text is kept
UnmarshalJSON_keepWSPort(s, input) ==
    LET j == jsonUnmarshal(input)
    IN  IF j.err # "nil"
        THEN [err |-> j.err, s |-> s]
        ELSE [err |-> "nil",
              s |-> [IP |-> j.val.IP, Port |-> j.val.Port, ID |-> j.val.ID,
                     WSPort |-> j.val.WSPort,
                     ChainMaskList |-> [i \in 1..Len(j.val.ChainMaskList) |->
                                          NewChainMask(j.val.ChainMaskList[i])]]]

\* SlaveConfig.UnmarshalJSON, lines 31-46, on the receiver s
UnmarshalJSON(s, input) ==
    LET j == jsonUnmarshal(input)
    IN  IF j.err # "nil"
        THEN [err |-> j.err, s |-> s]
        ELSE [err |-> "nil",
              s |-> [IP |-> j.val.IP, Port |-> j.val.Port, ID |-> j.val.ID,
                     WSPort |-> DefaultWSPort,
                     ChainMaskList |-> [i \in 1..Len(j.val.ChainMaskList) |->
                                          NewChainMask(j.val.ChainMaskList[i])]]]

\* no SlaveConfig is being written out or read back
IdleSlave ==
    [pc |-> "idle", s |-> ZeroSlaveConfig, buf |-> << >>, out |-> ZeroSlaveConfig,
     err |-> "nil"]

(***************************************************************************)
(* Initial state: NewQKCRlp wrapped the fd (newRLPX arms the handshake     *)
(* deadline on it), the key exchange set up ciphers and MACs, nothing sent *)
(***************************************************************************)
IdleWrite == [pc |-> "idle", msg |-> ZeroMsg, err |-> "nil", n |-> 0]

IdleRead ==
    [pc |-> "idle", fSize |-> 0, frameBuf |-> << >>, fMacSeed |-> Zeros(16),
     err |-> "nil", msg |-> ZeroMsg, decoded |-> FALSE]

NoQKCMsg == [err |-> "nil", op |-> 0, rpcID |-> 0, data |-> << >>]

\* MAC seeds of the two directions, as left by the key exchange
SeedAB == 4660

SeedBA == 22136

InitConn ==
    /\ enc = [e \in Endpoints |-> 0]
    /\ dec = [e \in Endpoints |-> 0]
    /\ egressMAC = [e \in Endpoints |-> IF e = "a" THEN SeedAB ELSE SeedBA]
    /\ ingressMAC = [e \in Endpoints |-> IF e = "a" THEN SeedBA ELSE SeedAB]
    /\ snappy \in [Endpoints -> BOOLEAN]
    /\ wire = [e \in Endpoints |-> << >>]
    /\ closed = FALSE
    /\ readDeadline = TRUE
    /\ writeDeadline = TRUE
    /\ rmu = "free"
    /\ wmu = "free"
    /\ wcall = [t \in Threads |-> IdleWrite]
    /\ rcall = IdleRead
    /\ pc = "hs_base"
    /\ hs = [result |-> "", err |-> "nil", cause |-> ""]
    /\ run = [done |-> FALSE, err |-> "nil", cause |-> ""]
    /\ cur = NoQKCMsg
    /\ calls = << >>
    /\ peer = [sent |-> << >>, got |-> << >>, dead |-> FALSE]
    /\ hist = [sent |-> << >>, got |-> << >>, fault |-> FALSE, overlap |-> FALSE,
               wrote |-> [t \in Threads |-> FALSE]]

Init == InitConn /\ slave = IdleSlave

(***************************************************************************)
(* WriteMsg on endpoint a, one step per lock operation and conn.Write      *)
(***************************************************************************)
\* a ReadMsg of a holds the read lock
ReadInProgress == rcall.pc \in {"header", "body", "mac"}

Returned(t, err) == [wcall EXCEPT ![t].pc = "ret", ![t].err = err]

\* conn.Write can fail: the fd is closed, or the write deadline passes
WriteCanFail == closed \/ writeDeadline

\* a sending goroutine calls WriteMsg(m); the connection is handed to the senders
\* when the handshake has returned
WStart(t, m) ==
    /\ pc \in {"run", "handle"}
    /\ wcall[t].pc = "idle"
    /\ ~hist.wrote[t]
    /\ wcall' = [wcall EXCEPT ![t] = [pc |-> "lock", msg |-> m, err |-> "nil", n |-> 0]]
    /\ hist' = [hist EXCEPT !.wrote[t] = TRUE]
    /\ UNCHANGED << slave, enc, dec, egressMAC, ingressMAC, snappy, wire, closed, readDeadline,
                    writeDeadline, rmu, wmu, rcall, pc, hs, run, cur, calls, peer >>

\* faulty variant: WriteMsg enters writeQKCMsg without waiting for the write lock
WLock_noWait(t) ==
    /\ wcall[t].pc = "lock"
    /\ wmu' = t
    /\ writeDeadline' = TRUE
    /\ wcall' = [wcall EXCEPT ![t].pc = "header"]
    /\ UNCHANGED << slave, enc, dec, egressMAC, ingressMAC, snappy, wire, closed, readDeadline,
                    rmu, rcall, pc, hs, run, cur, calls, peer, hist >>

\* WriteMsg, lines 94-96: take the write lock, set the write deadline
WLock(t) ==
    /\ wcall[t].pc = "lock"
    /\ wmu = "free"
    /\ wmu' = t
    /\ writeDeadline' = TRUE
    /\ wcall' = [wcall EXCEPT ![t].pc = "header"]
    /\ UNCHANGED << slave, enc, dec, egressMAC, ingressMAC, snappy, wire, closed, readDeadline,
                    rmu, rcall, pc, hs, run, cur, calls, peer, hist >>

\* writeQKCMsg, lines 164-184: compress, build the header and its MAC, write them
WHeader(t) ==
    /\ wcall[t].pc = "header"
    /\ LET c == writeCompress(snappy["a"], wcall[t].msg)
           h == writeHeader(enc["a"], egressMAC["a"], c.msg)
       IN  IF c.err # "nil"
           THEN /\ wcall' = Returned(t, c.err)
                /\ wmu' = "free"
                /\ UNCHANGED << enc, egressMAC, wire, hist >>
           ELSE /\ enc' = [enc EXCEPT !["a"] = h.enc]
                /\ egressMAC' = [egressMAC EXCEPT !["a"] = h.mac]
                /\ \/ /\ ~closed
                      /\ wire' = [wire EXCEPT !["a"] = @ \o h.bytes]
                      /\ wcall' = [wcall EXCEPT ![t].pc = "body", ![t].msg = c.msg,
                                                ![t].n = 1]
                      /\ hist' = [hist EXCEPT !.sent = Append(@, wcall[t].msg),
                                              !.overlap = @ \/ ReadInProgress]
                      /\ UNCHANGED wmu
                   \/ /\ WriteCanFail
                      /\ wcall' = Returned(t, "write error")
                      /\ wmu' = "free"
                      /\ hist' = [hist EXCEPT !.fault = TRUE]
                      /\ UNCHANGED wire
    /\ UNCHANGED << slave, dec, ingressMAC, snappy, closed, readDeadline, writeDeadline, rmu,
                    rcall, pc, hs, run, cur, calls, peer >>

\* faulty variant: a failed write of the body is ignored and the frame MAC follows
WBody_continueOnError(t) ==
    /\ wcall[t].pc = "body"
    /\ LET b == writeBody(enc["a"], egressMAC["a"], wcall[t].msg)
       IN  /\ enc' = [enc EXCEPT !["a"] = b.enc]
           /\ \/ /\ ~closed
                 /\ wire' = [wire EXCEPT !["a"] = @ \o b.bytes]
                 /\ egressMAC' = [egressMAC EXCEPT !["a"] = b.mac]
                 /\ wcall' = [wcall EXCEPT ![t].pc = "mac", ![t].n = 2]
                 /\ hist' = [hist EXCEPT !.overlap = @ \/ ReadInProgress]
              \/ /\ WriteCanFail
                 /\ wcall' = [wcall EXCEPT ![t].pc = "mac"]
                 /\ hist' = [hist EXCEPT !.fault = TRUE]
                 /\ UNCHANGED << wire, egressMAC >>
    /\ UNCHANGED << slave, dec, ingressMAC, snappy, closed, readDeadline, writeDeadline, rmu, wmu,
                    rcall, pc, hs, run, cur, calls, peer >>

\* writeQKCMsg, lines 188-198: encrypt the body and write it to conn and to the
\* egress MAC (io.MultiWriter: conn first)
WBody(t) ==
    /\ wcall[t].pc = "body"
    /\ LET b == writeBody(enc["a"], egressMAC["a"], wcall[t].msg)
       IN  /\ enc' = [enc EXCEPT !["a"] = b.enc]
           /\ \/ /\ ~closed
                 /\ wire' = [wire EXCEPT !["a"] = @ \o b.bytes]
                 /\ egressMAC' = [egressMAC EXCEPT !["a"] = b.mac]
                 /\ wcall' = [wcall EXCEPT ![t].pc = "mac", ![t].n = 2]
                 /\ hist' = [hist EXCEPT !.overlap = @ \/ ReadInProgress]
                 /\ UNCHANGED wmu
              \/ /\ WriteCanFail
                 /\ wcall' = Returned(t, "write error")
                 /\ wmu' = "free"
                 /\ hist' = [hist EXCEPT !.fault = TRUE]
                 /\ UNCHANGED << wire, egressMAC >>
    /\ UNCHANGED << slave, dec, ingressMAC, snappy, closed, readDeadline, writeDeadline, rmu,
                    rcall, pc, hs, run, cur, calls, peer >>

\* writeQKCMsg, lines 202-205, and the deferred unlock: write the frame MAC, return
WMac(t) ==
    /\ wcall[t].pc = "mac"
    /\ LET m == writeFrameMAC(egressMAC["a"])
       IN  /\ egressMAC' = [egressMAC EXCEPT !["a"] = m.mac]
           /\ \/ /\ ~closed
                 /\ wire' = [wire EXCEPT !["a"] = @ \o m.bytes]
                 /\ wcall' = [Returned(t, "nil") EXCEPT ![t].n = 3]
                 /\ hist' = [hist EXCEPT !.overlap = @ \/ ReadInProgress]
              \/ /\ WriteCanFail
                 /\ wcall' = Returned(t, "write error")
                 /\ hist' = [hist EXCEPT !.fault = TRUE]
                 /\ UNCHANGED wire
    /\ wmu' = "free"
    /\ UNCHANGED << slave, enc, dec, ingressMAC, snappy, closed, readDeadline, writeDeadline, rmu,
                    rcall, pc, hs, run, cur, calls, peer >>

(***************************************************************************)
(* ReadMsg on endpoint a, one step per lock operation and io.ReadFull      *)
(***************************************************************************)
\* a blocked read can fail: the fd is closed, or a read deadline passes
ReadCanFail == closed \/ readDeadline

ReadReturned(err, msg, decoded) ==
    [rcall EXCEPT !.pc = "ret", !.err = err, !.msg = msg, !.decoded = decoded]

\* faulty variant: ReadMsg leaves the read deadline as it finds it
RLock_keepDeadline ==
    /\ rcall.pc = "lock"
    /\ rmu = "free"
    /\ rmu' = "proto"
    /\ rcall' = [rcall EXCEPT !.pc = "header"]
    /\ UNCHANGED << slave, enc, dec, egressMAC, ingressMAC, snappy, wire, closed, readDeadline,
                    writeDeadline, wmu, wcall, pc, hs, run, cur, calls, peer, hist >>

\* ReadMsg, lines 86-88: take the read lock, clear the read deadline
RLock ==
    /\ rcall.pc = "lock"
    /\ rmu = "free"
    /\ rmu' = "proto"
    /\ readDeadline' = FALSE
    /\ rcall' = [rcall EXCEPT !.pc = "header"]
    /\ UNCHANGED << slave, enc, dec, egressMAC, ingressMAC, snappy, wire, closed, writeDeadline,
                    wmu, wcall, pc, hs, run, cur, calls, peer, hist >>

\* a read step failed: readQKCMsg returns the transport error and the zero Msg
ReadFails ==
    /\ rcall' = ReadReturned("read error", ZeroMsg, FALSE)
    /\ rmu' = "free"
    /\ hist' = [hist EXCEPT !.fault = TRUE,
                            !.got = Append(@, [err |-> "read error", msg |-> ZeroMsg,
                                              decoded |-> FALSE])]

\* readQKCMsg, lines 102-114: read 32 bytes, check the header MAC, decrypt the length
RHeader ==
    /\ rcall.pc = "header"
    /\ \/ /\ ~closed
          /\ Len(wire["b"]) >= 32
          /\ LET h == readHeader(dec["a"], ingressMAC["a"], SubSeq(wire["b"], 1, 32))
             IN  /\ wire' = [wire EXCEPT !["b"] = SubSeq(@, 33, Len(@))]
                 /\ ingressMAC' = [ingressMAC EXCEPT !["a"] = h.mac]
                 /\ dec' = [dec EXCEPT !["a"] = h.dec]
                 /\ IF h.err # "nil"
                    THEN /\ rcall' = ReadReturned(h.err, ZeroMsg, FALSE)
                         /\ rmu' = "free"
                         /\ hist' = [hist EXCEPT
                                !.got = Append(@, [err |-> h.err, msg |-> ZeroMsg,
                                                   decoded |-> FALSE])]
                    ELSE /\ rcall' = [rcall EXCEPT !.pc = "body", !.fSize = h.fSize]
                         /\ UNCHANGED << rmu, hist >>
       \/ /\ ReadCanFail
          /\ ReadFails
          /\ UNCHANGED << wire, ingressMAC, dec >>
    /\ UNCHANGED << slave, enc, egressMAC, snappy, closed, readDeadline, writeDeadline, wmu,
                    wcall, pc, hs, run, cur, calls, peer >>

\* faulty variant: one MAC accumulator for both directions, the body read is folded into
\* the egress MAC
RBody_sharedMAC ==
    /\ rcall.pc = "body"
    /\ ~closed
    /\ Len(wire["b"]) >= rcall.fSize
    /\ LET frameBuf == SubSeq(wire["b"], 1, rcall.fSize)
           b == readBody(egressMAC["a"], frameBuf)
       IN  /\ wire' = [wire EXCEPT !["b"] = SubSeq(@, rcall.fSize + 1, Len(@))]
           /\ egressMAC' = [egressMAC EXCEPT !["a"] = b.mac]
           /\ rcall' = [rcall EXCEPT !.pc = "mac", !.frameBuf = frameBuf,
                                     !.fMacSeed = b.fMacSeed]
    /\ UNCHANGED << slave, enc, dec, ingressMAC, snappy, closed, readDeadline, writeDeadline,
                    rmu, wmu, wcall, pc, hs, run, cur, calls, peer, hist >>

\* readQKCMsg, lines 116-123: read the body, fold it into the ingress MAC
RBody ==
    /\ rcall.pc = "body"
    /\ \/ /\ ~closed \/ rcall.fSize = 0
          /\ Len(wire["b"]) >= rcall.fSize
          /\ LET frameBuf == SubSeq(wire["b"], 1, rcall.fSize)
                 b == readBody(ingressMAC["a"], frameBuf)
             IN  /\ wire' = [wire EXCEPT !["b"] = SubSeq(@, rcall.fSize + 1, Len(@))]
                 /\ ingressMAC' = [ingressMAC EXCEPT !["a"] = b.mac]
                 /\ rcall' = [rcall EXCEPT !.pc = "mac", !.frameBuf = frameBuf,
                                           !.fMacSeed = b.fMacSeed]
                 /\ UNCHANGED << rmu, hist >>
       \/ /\ ReadCanFail
          /\ rcall.fSize > 0
          /\ ReadFails
          /\ UNCHANGED << wire, ingressMAC >>
    /\ UNCHANGED << slave, enc, dec, egressMAC, snappy, closed, readDeadline, writeDeadline, wmu,
                    wcall, pc, hs, run, cur, calls, peer >>

\* readQKCMsg, lines 124-160, and the deferred unlock: read and check the frame MAC,
\* decrypt, decompress, return the Msg
RMac ==
    /\ rcall.pc = "mac"
    /\ \/ /\ ~closed
          /\ Len(wire["b"]) >= 16
          /\ LET r == readFrameMAC(dec["a"], ingressMAC["a"], snappy["a"], rcall.frameBuf,
                          rcall.fMacSeed, SubSeq(wire["b"], 1, 16))
             IN  /\ wire' = [wire EXCEPT !["b"] = SubSeq(@, 17, Len(@))]
                 /\ ingressMAC' = [ingressMAC EXCEPT !["a"] = r.mac]
                 /\ dec' = [dec EXCEPT !["a"] = r.dec]
                 /\ rcall' = ReadReturned(r.err, r.msg, r.decoded)
                 /\ rmu' = "free"
                 /\ hist' = [hist EXCEPT !.got = Append(@, [err |-> r.err, msg |-> r.msg,
                                                             decoded |-> r.decoded])]
       \/ /\ ReadCanFail
          /\ ReadFails
          /\ UNCHANGED << wire, ingressMAC, dec >>
    /\ UNCHANGED << slave, enc, egressMAC, snappy, closed, readDeadline, writeDeadline, wmu,
                    wcall, pc, hs, run, cur, calls, peer >>

(***************************************************************************)
(* The connection goroutine of a: doProtoHandshake, then qkcMsgHandle      *)
(***************************************************************************)
CallWrite(t, m) ==
    [wcall EXCEPT ![t] = [pc |-> "lock", msg |-> m, err |-> "nil", n |-> 0]]

CallRead == [IdleRead EXCEPT !.pc = "lock"]

\* doProtoHandshake, lines 209-227: the base handshake of the embedded rlpx, which
\* succeeds or fails, then WriteMsg(hello)
HsBase ==
    /\ pc = "hs_base"
    /\ \/ /\ pc' = "hs_write"
          /\ wcall' = CallWrite("proto", hello)
          /\ UNCHANGED hs
       \/ /\ pc' = "end"
          /\ hs' = [result |-> "error", err |-> "base handshake failed", cause |-> "base"]
          /\ UNCHANGED wcall
    /\ UNCHANGED << slave, enc, dec, egressMAC, ingressMAC, snappy, wire, closed, readDeadline,
                    writeDeadline, rmu, wmu, rcall, run, cur, calls, peer, hist >>

\* doProtoHandshake, lines 227-232: WriteMsg returned; on an error return it,
\* otherwise call ReadMsg
HsWriteDone ==
    /\ pc = "hs_write"
    /\ wcall["proto"].pc = "ret"
    /\ IF wcall["proto"].err # "nil"
       THEN /\ pc' = "end"
            /\ hs' = [result |-> "error", err |-> wcall["proto"].err, cause |-> "write"]
            /\ UNCHANGED rcall
       ELSE /\ pc' = "hs_read"
            /\ rcall' = CallRead
            /\ UNCHANGED hs
    /\ UNCHANGED << slave, enc, dec, egressMAC, ingressMAC, snappy, wire, closed, readDeadline,
                    writeDeadline, rmu, wmu, wcall, run, cur, calls, peer, hist >>

\* doProtoHandshake, lines 232-243: ReadMsg returned; buffer and decode the peer's
\* message.  After a successful handshake the connection's owner starts the
\* protocol, whose Run function is qkcMsgHandle: its first ReadMsg is called.
HsReadDone ==
    /\ pc = "hs_read"
    /\ rcall.pc = "ret"
    /\ LET r == handshakeRead(rcall.err, rcall.msg)
       IN  /\ hs' = [result |-> r.result, err |-> r.err,
                     cause |-> IF rcall.err # "nil" THEN "read"
                               ELSE IF r.result = "ok" THEN "" ELSE "decode"]
           /\ IF r.result = "ok"
              THEN /\ pc' = "run"
                   /\ rcall' = CallRead
              ELSE /\ pc' = "end"
                   /\ UNCHANGED rcall
    /\ UNCHANGED << slave, enc, dec, egressMAC, ingressMAC, snappy, wire, closed, readDeadline,
                    writeDeadline, rmu, wmu, wcall, run, cur, calls, peer, hist >>

\* qkcMsgHandle, lines 32-53: ReadMsg returned; buffer the payload, decode it, look
\* the opcode up in the serializer map
RunDecode ==
    /\ pc = "run"
    /\ rcall.pc = "ret"
    /\ LET r == handleRead(rcall.err, rcall.msg)
       IN  IF r.ret = "continue"
           THEN /\ pc' = "handle"
                /\ cur' = r.qkcMsg
                /\ UNCHANGED run
           ELSE /\ pc' = "end"
                /\ run' = [done |-> TRUE, err |-> r.ret, cause |-> r.cause]
                /\ UNCHANGED cur
    /\ UNCHANGED << slave, enc, dec, egressMAC, ingressMAC, snappy, wire, closed, readDeadline,
                    writeDeadline, rmu, wmu, wcall, rcall, hs, calls, peer, hist >>

\* faulty variant: the handler runs in a goroutine of its own, the loop calls the
\* next ReadMsg without waiting for it
Handle_async ==
    /\ pc = "handle"
    /\ \/ /\ rcall.pc = "ret"
          /\ rcall' = CallRead
          /\ UNCHANGED << calls, cur, pc >>
       \/ /\ rcall.pc # "ret"
          /\ calls' = calls \o dispatch(cur)
          /\ cur' = NoQKCMsg
          /\ pc' = "run"
          /\ UNCHANGED rcall
    /\ UNCHANGED << slave, enc, dec, egressMAC, ingressMAC, snappy, wire, closed, readDeadline,
                    writeDeadline, rmu, wmu, wcall, hs, run, peer, hist >>

\* qkcMsgHandle, lines 55-62: invoke the handler registered for the opcode, which
\* returns, and go round the loop: call ReadMsg again
Handle ==
    /\ pc = "handle"
    /\ calls' = calls \o dispatch(cur)
    /\ cur' = NoQKCMsg
    /\ pc' = "run"
    /\ rcall' = CallRead
    /\ UNCHANGED << slave, enc, dec, egressMAC, ingressMAC, snappy, wire, closed, readDeadline,
                    writeDeadline, rmu, wmu, wcall, hs, run, peer, hist >>

(***************************************************************************)
(* The environment: the peer b, the network, the owner of the connection   *)
(***************************************************************************)
\* the frame as it arrives, a bit of one MAC possibly flipped on the way
InTransit(f, flip) ==
    IF flip.mac = "header"
    THEN FlipBit(f.header, 16 + flip.byte, flip.bit) \o f.body \o f.trailer
    ELSE IF flip.mac = "frame"
    THEN f.header \o f.body \o FlipBit(f.trailer, flip.byte, flip.bit)
    ELSE f.header \o f.body \o f.trailer

\* b writes the frame of a message with its own writeQKCMsg; on the way a bit of one
\* of its MACs may be flipped (after which b sends no more); b sends at most max frames
PeerSend(body, flips, max) ==
    /\ ~closed
    /\ Len(peer.sent) < max
    /\ \A i \in 1..Len(peer.sent) : peer.sent[i].flip = NoFlip
    /\ LET f == writeQKCMsg(enc["b"], egressMAC["b"], snappy["b"], NewMsg(body))
       IN  /\ enc' = [enc EXCEPT !["b"] = f.enc]
           /\ egressMAC' = [egressMAC EXCEPT !["b"] = f.mac]
           /\ \E flip \in flips \cup {NoFlip} :
                 /\ wire' = [wire EXCEPT !["b"] = @ \o InTransit(f, flip)]
                 /\ peer' = [peer EXCEPT !.sent = Append(@, [body |-> body, flip |-> flip])]
    /\ UNCHANGED << slave, dec, ingressMAC, snappy, closed, readDeadline, writeDeadline, rmu, wmu,
                    wcall, rcall, pc, hs, run, cur, calls, hist >>

\* b reads one frame with its own readQKCMsg; it gives the connection up on an error
PeerRecv ==
    /\ ~closed
    /\ ~peer.dead
    /\ \E r \in { readQKCMsg(dec["b"], ingressMAC["b"], snappy["b"], wire["a"]) } :
           /\ ~r.need
           /\ dec' = [dec EXCEPT !["b"] = r.dec]
           /\ ingressMAC' = [ingressMAC EXCEPT !["b"] = r.mac]
           /\ wire' = [wire EXCEPT !["a"] = SubSeq(@, r.n + 1, Len(@))]
           /\ peer' = [peer EXCEPT !.got = Append(@, [err |-> r.err, msg |-> r.msg]),
                                   !.dead = r.err # "nil"]
    /\ UNCHANGED << slave, enc, egressMAC, snappy, closed, readDeadline, writeDeadline, rmu, wmu,
                    wcall, rcall, pc, hs, run, cur, calls, hist >>

\* the connection is closed underneath the codec
Close ==
    /\ ~closed
    /\ closed' = TRUE
    /\ UNCHANGED << slave, enc, dec, egressMAC, ingressMAC, snappy, wire, readDeadline,
                    writeDeadline, rmu, wmu, wcall, rcall, pc, hs, run, cur, calls, peer,
                    hist >>

\* The life of one connection: a's connection goroutine runs the handshake and then
\* the dispatch loop on what the peer sends; nothing else is sent on a.
Next ==
    \/ WLock("proto")
    \/ WHeader("proto")
    \/ WBody("proto")
    \/ WMac("proto")
    \/ RLock
    \/ RHeader
    \/ RBody
    \/ RMac
    \/ HsBase
    \/ HsWriteDone
    \/ HsReadDone
    \/ RunDecode
    \/ Handle
    \/ \E body \in PeerBodies : PeerSend(body, Flips, MaxPeerFrames)
    \/ Close

Spec == Init /\ [][Next]_vars

(***************************************************************************)
(* The connection in service: a's connection goroutine runs the handshake  *)
(* and the dispatch loop while, once the handshake is over, other          *)
(* goroutines of a send; the peer reads what a writes                      *)
(***************************************************************************)
\* bodies the peer sends
ConcBodies == { << 2, 5 >> }

MaxConcFrames == 3

\* both endpoints were configured with the same compression setting
InitConc == Init /\ snappy["a"] = snappy["b"]

NextConc ==
    \/ \E t \in Writers, m \in WriterMsgs : WStart(t, m)
    \/ \E t \in Threads : WLock(t)
    \/ \E t \in Threads : WHeader(t)
    \/ \E t \in Threads : WBody(t)
    \/ \E t \in Threads : WMac(t)
    \/ RLock
    \/ RHeader
    \/ RBody
    \/ RMac
    \/ HsBase
    \/ HsWriteDone
    \/ HsReadDone
    \/ RunDecode
    \/ Handle
    \/ \E body \in ConcBodies : PeerSend(body, {}, MaxConcFrames)
    \/ PeerRecv

SpecConc == InitConc /\ [][NextConc]_vars

(***************************************************************************)
(* The dispatch loop at work: the handshake, then a run of intact frames   *)
(* with different opcodes; nobody else sends                               *)
(***************************************************************************)
\* bodies the peer sends: an RPC opcode, one with a serializer only, one with both
\* handlers
LoopBodies == { << 2, 5 >>, << 3, 0 >>, << 4, 0, 7 >> }

MaxLoopFrames == 3

NextLoop ==
    \/ WLock("proto")
    \/ WHeader("proto")
    \/ WBody("proto")
    \/ WMac("proto")
    \/ RLock
    \/ RHeader
    \/ RBody
    \/ RMac
    \/ HsBase
    \/ HsWriteDone
    \/ HsReadDone
    \/ RunDecode
    \/ Handle
    \/ \E body \in LoopBodies : PeerSend(body, {}, MaxLoopFrames)

SpecLoop == InitConc /\ [][NextLoop]_vars

(***************************************************************************)
(* The senders at work: after the handshake two goroutines of a each pass  *)
(* a Msg to WriteMsg, also a Msg that is too large or whose Size is not    *)
(* its payload's length; the peer reads what arrives                       *)
(***************************************************************************)
\* a Msg whose Size is above the 24-bit bound, and one whose Size is not its
\* payload's length
OversizeMsg == [Size |-> maxUint24 + 1, Payload |-> << 3, 0 >>]

ShortSizeMsg == [Size |-> 1, Payload |-> << 3, 0 >>]

SenderMsgs == WriterMsgs \cup { OversizeMsg, ShortSizeMsg }

MaxWriteFrames == 1

NextWrite ==
    \/ \E t \in Writers, m \in SenderMsgs : WStart(t, m)
    \/ \E t \in Threads : WLock(t)
    \/ \E t \in Threads : WHeader(t)
    \/ \E t \in Threads : WBody(t)
    \/ \E t \in Threads : WMac(t)
    \/ RLock
    \/ RHeader
    \/ RBody
    \/ RMac
    \/ HsBase
    \/ HsWriteDone
    \/ HsReadDone
    \/ \E body \in ConcBodies : PeerSend(body, {}, MaxWriteFrames)
    \/ PeerRecv

SpecWrite == InitConc /\ [][NextWrite]_vars

(***************************************************************************)
(* A SlaveConfig is written out with MarshalJSON and the text is read back *)
(* with UnmarshalJSON into a new SlaveConfig                               *)
(***************************************************************************)
\* hosts and ids: empty, "1.2", a quote with a backslash and a <, a line feed,
\* a two-byte rune, a byte that is not UTF-8
Hosts == { << >>, << 49, 46, 50 >>, << 34, 92, 60 >>, << 195, 169 >>, << 255 >> }

IDs == { << 83, 48 >>, << 10 >>, << 65, 255 >> }

Ports == { 0, 38392, 65535 }

WSPorts == { 0, DefaultWSPort }

Masks == { 1, 3, 65536 }

MaxMasks == 2

MaskLists == UNION { [1..n -> Masks] : n \in 0..MaxMasks }

Configs ==
    [IP : Hosts, Port : Ports, ID : IDs, WSPort : WSPorts,
     ChainMaskList : { [i \in 1..Len(l) |-> NewChainMask(l[i])] : l \in MaskLists }]

InitJSON ==
    /\ InitConn
    /\ snappy = [e \in Endpoints |-> FALSE]
    /\ slave \in { [IdleSlave EXCEPT !.pc = "new", !.s = c] : c \in Configs }

\* s.MarshalJSON()
Marshal ==
    /\ slave.pc = "new"
    /\ slave' = [slave EXCEPT !.pc = "marshalled", !.buf = MarshalJSON(slave.s)]
    /\ UNCHANGED << enc, dec, egressMAC, ingressMAC, snappy, wire, closed, readDeadline,
                    writeDeadline, rmu, wmu, wcall, rcall, pc, hs, run, cur, calls, peer,
                    hist >>

\* new(SlaveConfig).UnmarshalJSON(buf)
Unmarshal ==
    /\ slave.pc = "marshalled"
    /\ \E r \in { UnmarshalJSON(ZeroSlaveConfig, slave.buf) } :
           slave' = [slave EXCEPT !.pc = "done", !.out = r.s, !.err = r.err]
    /\ UNCHANGED << enc, dec, egressMAC, ingressMAC, snappy, wire, closed, readDeadline,
                    writeDeadline, rmu, wmu, wcall, rcall, pc, hs, run, cur, calls, peer,
                    hist >>

NextJSON == Marshal \/ Unmarshal

SpecJSON == InitJSON /\ [][NextJSON]_vars

(***************************************************************************)
(* Properties                                                              *)
(***************************************************************************)
\* the k-th ReadMsg of a read the k-th frame b sent (every ReadMsg that fails is
\* a's last), unless the transport failed under it
ReadFrame(k) ==
    /\ k <= Len(peer.sent)
    /\ hist.got[k].err # "read error"

\* C1: with compression disabled on both endpoints, a frame written by writeQKCMsg
\* and read by readQKCMsg on the matching cipher/MAC pair yields the written
\* payload, and a Size equal to its length.
C1_RoundTripPlain ==
    \A k \in 1..Len(hist.got) :
        (ReadFrame(k) /\ ~snappy["a"] /\ ~snappy["b"] /\ peer.sent[k].flip = NoFlip)
            => /\ hist.got[k].err = "nil"
               /\ hist.got[k].msg.Payload = peer.sent[k].body
               /\ hist.got[k].msg.Size = Len(peer.sent[k].body)

\* two frames were read back without compression, the second one empty
C1_Witness ==
    /\ ~snappy["a"] /\ ~snappy["b"]
    /\ Len(hist.got) = 2
    /\ Len(peer.sent) = 2
    /\ hist.got[1].err = "nil" /\ Len(hist.got[1].msg.Payload) = 3
    /\ hist.got[2].err = "nil" /\ hist.got[2].msg.Payload = << >>
    /\ peer.sent[2].body = << >>

AllBits == { [byte |-> i, bit |-> j] : i \in 1..16, j \in 0..7 }

\* ReadMsg of a is about to check a MAC of the frame b sent last, which arrived intact
Verifying(step, n) ==
    /\ rcall.pc = step
    /\ ~closed
    /\ Len(wire["b"]) >= n
    /\ Len(peer.sent) = Len(hist.got) + 1
    /\ peer.sent[Len(peer.sent)].flip = NoFlip

\* C2: a frame with one bit of its header MAC or of its frame MAC flipped makes
\* readQKCMsg fail with "bad header MAC" / "bad frame MAC" and return no Message,
\* whatever the payload and the compression settings.  The flips that happen in
\* transit are checked on what ReadMsg returned; every bit position is checked on
\* the frame ReadMsg is about to verify.
C2_FlippedMACRejected ==
    /\ \A k \in 1..Len(hist.got) :
        ReadFrame(k) =>
            /\ peer.sent[k].flip.mac = "header"
                 => (hist.got[k].err = "bad header MAC" /\ hist.got[k].msg = ZeroMsg)
            /\ peer.sent[k].flip.mac = "frame"
                 => (hist.got[k].err = "bad frame MAC" /\ hist.got[k].msg = ZeroMsg)
    /\ Verifying("header", 32)
         => \A f \in AllBits :
              readHeader(dec["a"], ingressMAC["a"],
                         FlipBit(SubSeq(wire["b"], 1, 32), 16 + f.byte, f.bit)).err
                = "bad header MAC"
    /\ Verifying("mac", 16)
         => \A f \in AllBits :
              LET r == readFrameMAC(dec["a"], ingressMAC["a"], snappy["a"],
                           rcall.frameBuf, rcall.fMacSeed,
                           FlipBit(SubSeq(wire["b"], 1, 16), f.byte, f.bit))
              IN  r.err = "bad frame MAC" /\ r.msg = ZeroMsg

\* a frame whose frame MAC had a bit flipped was read and rejected after an intact one
C2_Witness ==
    /\ Len(hist.got) = 2
    /\ Len(peer.sent) = 2
    /\ peer.sent[2].flip.mac = "frame"
    /\ Len(peer.sent[2].body) > 0
    /\ hist.got[2].err = "bad frame MAC"

\* C3: with compression enabled on both endpoints the round trip yields the
\* original uncompressed payload and a Size equal to its uncompressed length
\* (payload lengths 0 to 4).
C3_RoundTripCompressed ==
    \A k \in 1..Len(hist.got) :
        (ReadFrame(k) /\ snappy["a"] /\ snappy["b"] /\ peer.sent[k].flip = NoFlip)
            => /\ hist.got[k].err = "nil"
               /\ hist.got[k].msg.Payload = peer.sent[k].body
               /\ hist.got[k].msg.Size = Len(peer.sent[k].body)

\* two compressed frames were read back, an empty one and a four byte one
C3_Witness ==
    /\ snappy["a"] /\ snappy["b"]
    /\ Len(hist.got) = 2
    /\ Len(peer.sent) = 2
    /\ hist.got[1].err = "nil" /\ hist.got[1].decoded
    /\ hist.got[2].err = "nil" /\ hist.got[2].decoded
    /\ \E k \in 1..2 : peer.sent[k].body = << >>
    /\ \E k \in 1..2 : Len(peer.sent[k].body) = 4

\* the frame content a receives for the k-th frame of b
Content(k) ==
    IF snappy["b"] THEN snappyEncode(peer.sent[k].body) ELSE peer.sent[k].body

\* C4: with compression enabled, a received frame whose declared decompressed
\* length is above maxUint24 is rejected with an error, snappy.Decode is not called,
\* and the Msg returned yields no payload bytes.
C4_OversizeRejected ==
    \A k \in 1..Len(hist.got) :
        (ReadFrame(k) /\ snappy["a"] /\ peer.sent[k].flip = NoFlip
           /\ DecodedLen(Content(k)).err = "nil"
           /\ DecodedLen(Content(k)).size > maxUint24)
            => /\ hist.got[k].err = "errPlainMessageTooLarge"
               /\ ~hist.got[k].decoded
               /\ hist.got[k].msg.Payload = << >>

\* a frame declaring 2^24 decompressed bytes was read by a with compression enabled
C4_Witness ==
    /\ snappy["a"]
    /\ Len(hist.got) = 1
    /\ Len(peer.sent) >= 1
    /\ peer.sent[1].body = << 128, 128, 128, 8 >>
    /\ peer.sent[1].flip = NoFlip
    /\ hist.got[1].err = "errPlainMessageTooLarge"
    /\ pc = "end"

\* C5: an opcode absent from the serializer map ends the dispatch loop with a
\* non-nil error and without a handler call for that message.
C5_UnknownOpcodeIsError ==
    (run.done /\ run.cause = "op")
        => (run.err # "nil" /\ Len(calls) <= Len(hist.got) - 2)

\* the calls the dispatcher owes for what a ReadMsg returned
CallsFor(entry) ==
    LET q == DecodeQKCMsg(entry.msg.Payload)
    IN  IF entry.err # "nil" \/ q.err # "nil" \/ q.op \notin OPSerializerMap THEN << >>
        ELSE IF q.op \in OPNonRPCMap
        THEN << [kind |-> "nonrpc", op |-> q.op, data |-> q.data] >>
        ELSE IF q.op \in OpRPCMap
        THEN << [kind |-> "rpc", op |-> q.op, data |-> q.data] >>
        ELSE << >>

RECURSIVE CallsForAll(_)
CallsForAll(entries) ==
    IF entries = << >> THEN << >>
    ELSE CallsFor(Head(entries)) \o CallsForAll(Tail(entries))

\* what the dispatch loop has read and finished with: everything ReadMsg returned
\* after the handshake's read, but for a message not yet routed
Routed ==
    SubSeq(hist.got, 2,
           IF pc = "handle" \/ (pc = "run" /\ rcall.pc = "ret")
           THEN Len(hist.got) - 1 ELSE Len(hist.got))

\* C6: for every decoded message with a registered opcode the dispatcher has made
\* exactly one call: the fire-and-forget handler with (opcode, data) if there is
\* one, else the RPC handler with data if there is one; and no other call.
C6_OneCallPerMessage ==
    /\ calls = CallsForAll(Routed)
    /\ Len(calls) <= Len(Routed)

\* the RPC handler was called once for a message with an RPC opcode
C6_Witness ==
    /\ pc = "run"
    /\ Len(hist.got) = 2
    /\ calls = << [kind |-> "rpc", op |-> 2, data |-> << >>] >>

\* C7: a failed hello write, a failed read of the peer's message or a message that
\* does not decode make doProtoHandshake return an error, and the dispatch loop is
\* not started.
C7_HandshakeFailureReturnsError ==
    /\ (pc # "hs_write" /\ wcall["proto"].pc = "ret" /\ wcall["proto"].err # "nil")
         => (hs.result = "error" /\ pc = "end")
    /\ (pc # "hs_read" /\ Len(hist.got) >= 1
          /\ (hist.got[1].err # "nil" \/ DecodeQKCMsg(hist.got[1].msg.Payload).err # "nil"))
         => (hs.result = "error" /\ pc = "end")

\* the hello frame: 32 header bytes, the body, 16 MAC bytes
HelloOnWire ==
    /\ wcall["proto"].n = 3
    /\ hist.sent = << hello >>
    /\ Len(wire["a"]) = 32 + Len(writeCompress(snappy["a"], hello).msg.Payload) + 16

HandshakeReading == pc = "hs_read" /\ rcall.pc \in {"lock", "header", "body", "mac"}

HandshakeBlocked ==
    pc = "hs_read" /\ rcall.pc = "header" /\ Len(wire["b"]) < 32 /\ ~closed

\* C8: the handshake has written all three parts of the hello frame before it
\* starts to read; while the peer has sent nothing it stays in that read, which has
\* no deadline, and it gets past it only on bytes from the peer or when the
\* transport is closed.
C8_HelloThenBlockingRead ==
    /\ [](pc \in {"hs_read", "run", "handle"} => HelloOnWire)
    /\ [](HandshakeReading /\ rcall.pc # "lock" => ~readDeadline)
    /\ []((Len(hist.got) >= 1) => (Len(peer.sent) >= 1 \/ closed))
    /\ [][HandshakeBlocked => (pc' = "hs_read" /\ rcall'.pc = "header")]_vars

\* the handshake sits in its read and the peer has sent nothing
C8_Witness ==
    /\ HandshakeBlocked
    /\ peer.sent = << >>
    /\ HelloOnWire

\* the ReadMsg results the dispatch loop has examined
Examined ==
    { k \in 2..Len(hist.got) : ~(k = Len(hist.got) /\ pc = "run" /\ rcall.pc = "ret") }

\* C10: when ReadMsg or DecodeQKCMsg fails in the dispatch loop, the loop returns
\* that non-nil error; it makes no handler call for that message, and once it has
\* returned it reads nothing more and calls no handler.
C10_ErrorStopsLoop ==
    /\ [](\A k \in Examined :
            LET e == hist.got[k]
                d == DecodeQKCMsg(e.msg.Payload)
            IN  /\ e.err # "nil" => (run.done /\ run.err = e.err /\ k = Len(hist.got))
                /\ (e.err = "nil" /\ d.err # "nil")
                     => (run.done /\ run.err = d.err /\ run.err # "nil"
                           /\ k = Len(hist.got)))
    /\ [][run'.done => (calls' = calls /\ hist'.got = hist.got)]_vars
    /\ [][run.done => (run' = run /\ rcall' = rcall /\ pc' = "end")]_vars

\* the loop returned the error of a failed frame MAC check
C10_Witness ==
    /\ run.done
    /\ run.err = "bad frame MAC"
    /\ pc = "end"

\* the egress state of a after it wrote the first k of msgs and did nothing else
RECURSIVE WriteOnlyRun(_, _, _)
WriteOnlyRun(s, msgs, k) ==
    IF k = 0
    THEN [enc |-> 0, mac |-> SeedAB]
    ELSE LET p == WriteOnlyRun(s, msgs, k - 1)
             f == writeQKCMsg(p.enc, p.mac, s, msgs[k])
         IN  [enc |-> f.enc, mac |-> f.mac]

\* the ingress state of a after it read the first k frames b sent and did nothing
\* else (penc, pmac: b's egress state, which makes the frames)
RECURSIVE ReadOnlyRun(_, _, _)
ReadOnlyRun(s, sent, k) ==
    IF k = 0
    THEN [dec |-> 0, mac |-> SeedBA, penc |-> 0, pmac |-> SeedBA]
    ELSE LET p == ReadOnlyRun(s, sent, k - 1)
             f == writeQKCMsg(p.penc, p.pmac, s, NewMsg(sent[k].body))
             r == readQKCMsg(p.dec, p.mac, s, f.header \o f.body \o f.trailer)
         IN  [dec |-> r.dec, mac |-> r.mac, penc |-> f.enc, pmac |-> f.mac]

\* every message a has put on the wire so far has the Size of its payload
AllWellFormed == \A k \in 1..Len(hist.sent) : WellFormed(hist.sent[k])

\* C9: while a ReadMsg and WriteMsg calls of a run concurrently and the transport
\* does not fail, between writes the egress cipher/MAC state is the one a write-only
\* run of the same messages leaves and between reads the ingress state is the one a
\* read-only run of the same frames leaves; no step of a write touches the ingress
\* state and no step of a read the egress state; and every frame read afterwards,
\* by a or by the peer, verifies and yields what was sent.
C9_ConcurrentReadWriteKeepsMACs ==
    /\ []((~hist.fault /\ wmu = "free")
            => LET w == WriteOnlyRun(snappy["a"], hist.sent, Len(hist.sent))
               IN  enc["a"] = w.enc /\ egressMAC["a"] = w.mac)
    /\ []((~hist.fault /\ rmu = "free")
            => LET r == ReadOnlyRun(snappy["a"], peer.sent, Len(hist.got))
               IN  dec["a"] = r.dec /\ ingressMAC["a"] = r.mac)
    /\ [](~hist.fault
            => \A k \in 1..Len(hist.got) :
                 /\ hist.got[k].err = "nil"
                 /\ hist.got[k].msg.Payload = peer.sent[k].body)
    /\ []((~hist.fault /\ AllWellFormed)
            => \A k \in 1..Len(peer.got) :
                 /\ peer.got[k].err = "nil"
                 /\ peer.got[k].msg.Payload = hist.sent[k].Payload)
    /\ [][wcall' # wcall => (dec'["a"] = dec["a"] /\ ingressMAC'["a"] = ingressMAC["a"])]_vars
    /\ [][rcall' # rcall => (enc'["a"] = enc["a"] /\ egressMAC'["a"] = egressMAC["a"])]_vars

\* a write overlapped a read, and three frames (the hello and two more) were read
\* and verified in each direction
C9_Witness ==
    /\ hist.overlap
    /\ ~hist.fault
    /\ AllWellFormed
    /\ Len(hist.got) = 3
    /\ Len(peer.got) = 3
    /\ peer.got[3].err = "nil"
    /\ hist.got[3].err = "nil"
    /\ wmu = "free"
    /\ rmu = "free"

\* the frame the message in the dispatcher's hands came in
InHand == Len(hist.got)

\* C11: a handler is called only from the dispatch step, for a message whose frame
\* arrived with both MACs intact and was returned by ReadMsg without error, and
\* whose whole payload DecodeQKCMsg decoded without error; a ReadMsg that returned
\* an error, or a payload that does not decode, is followed by no handler call.
C11_OnlyVerifiedDecodedReachHandler ==
    /\ [](pc = "handle"
            => /\ InHand >= 2
               /\ InHand <= Len(peer.sent)
               /\ peer.sent[InHand].flip = NoFlip
               /\ hist.got[InHand].err = "nil"
               /\ DecodeQKCMsg(hist.got[InHand].msg.Payload).err = "nil"
               /\ cur = DecodeQKCMsg(hist.got[InHand].msg.Payload)
               /\ hist.got[InHand].msg.Payload
                    = (IF snappy["a"] THEN snappyDecode(Content(InHand)).out
                       ELSE Content(InHand)))
    /\ [][calls' # calls => (pc = "handle" /\ calls' = calls \o dispatch(cur))]_vars
    /\ [][(pc = "run" /\ rcall.pc = "ret"
            /\ (rcall.err # "nil" \/ DecodeQKCMsg(rcall.msg.Payload).err # "nil"))
           => (calls' = calls /\ pc' # "handle")]_vars

\* the fire-and-forget handler was called for the second frame, which arrived intact
C11_Witness ==
    /\ pc = "run"
    /\ Len(hist.got) = 2
    /\ Len(peer.sent) = 2
    /\ peer.sent[2].flip = NoFlip
    /\ Len(calls) = 1
    /\ calls[1].kind = "nonrpc"

\* a ReadMsg of the dispatch loop is called in this step
LoopReadStarts == rcall'.pc = "lock" /\ rcall.pc # "lock" /\ pc # "hs_write"

\* C12: while the dispatcher holds a message whose handler has not returned no
\* ReadMsg is in progress; the loop calls its next ReadMsg only in the step in which
\* the handler of the message in hand returns (its first one when the handshake
\* returns); ReadMsg results accumulate in arrival order; and every handler call is
\* for the frame read last, so handlers run one at a time in the frames' order.
C12_OneMessageAtATime ==
    /\ [](pc = "handle" => (rcall.pc = "ret" /\ rmu = "free"))
    /\ [][LoopReadStarts
            => \/ pc = "hs_read" /\ rcall.pc = "ret" /\ calls' = calls
               \/ pc = "handle" /\ calls' = calls \o dispatch(cur)]_vars
    /\ [][hist'.got # hist.got
            => /\ Len(hist'.got) = Len(hist.got) + 1
               /\ SubSeq(hist'.got, 1, Len(hist.got)) = hist.got
               /\ hist'.got[Len(hist'.got)].err = "nil"
                    => hist'.got[Len(hist'.got)].msg.Payload
                         = peer.sent[Len(hist'.got)].body]_vars
    /\ [][calls' # calls
            => /\ calls' = calls \o dispatch(DecodeQKCMsg(hist.got[InHand].msg.Payload))
               /\ hist'.got = hist.got]_vars

\* the RPC handler ran for the second frame and then the fire-and-forget handler
\* for the third
C12_Witness ==
    /\ pc = "run"
    /\ Len(hist.got) = 3
    /\ Len(calls) = 2
    /\ calls[1] = [kind |-> "rpc", op |-> 2, data |-> << >>]
    /\ calls[2] = [kind |-> "nonrpc", op |-> 4, data |-> << 7 >>]

\* opcodes with a serializer but no handler of either kind
Reserved == OPSerializerMap \ (OPNonRPCMap \cup OpRPCMap)

\* ReadMsg has handed the loop a message that decodes to a reserved opcode
ReservedReturned ==
    /\ pc = "run"
    /\ rcall.pc = "ret"
    /\ rcall.err = "nil"
    /\ DecodeQKCMsg(rcall.msg.Payload).err = "nil"
    /\ DecodeQKCMsg(rcall.msg.Payload).op \in Reserved

\* C13: a message with a recognized opcode that has no handler of either kind is
\* passed on by the opcode check without an error, causes no handler call, and the
\* loop goes on to call the next ReadMsg.
C13_ReservedOpcodeIsNoOp ==
    /\ [][ReservedReturned => (pc' \in {"run", "handle"} /\ run' = run /\ calls' = calls)]_vars
    /\ [][(ReservedReturned /\ pc' # pc) => (pc' = "handle" /\ cur'.op \in Reserved)]_vars
    /\ [][(pc = "handle" /\ cur.op \in Reserved)
            => (calls' = calls /\ run' = run /\ pc' \in {"handle", "run"})]_vars
    /\ [][(pc = "handle" /\ cur.op \in Reserved /\ pc' # pc)
            => (pc' = "run" /\ rcall' = CallRead)]_vars
    /\ [](run.done => run.cause \in {"read", "decode", "op"})
    /\ []((run.done /\ run.cause = "op")
            => DecodeQKCMsg(hist.got[InHand].msg.Payload).op \notin OPSerializerMap)

\* the second frame carried a reserved opcode; no handler was called, the loop read
\* the third frame and called its handler
C13_Witness ==
    /\ pc = "run"
    /\ ~run.done
    /\ Len(hist.got) = 3
    /\ hist.got[2].err = "nil"
    /\ hist.got[2].msg.Payload = << 3, 0 >>
    /\ hist.got[3].err = "nil"
    /\ calls = << [kind |-> "rpc", op |-> 2, data |-> << >>] >>


\* goroutine t is in writeQKCMsg with compression on and a Msg above the bound
Oversized(t) ==
    wcall[t].pc = "header" /\ snappy["a"] /\ wcall[t].msg.Size > maxUint24

\* C14: with compression on, a WriteMsg of a Msg whose Size is above the 24-bit
\* bound returns errPlainMessageTooLarge as its first step: no byte is written, the
\* egress cipher and the egress MAC stay as they were, no conn.Write was made; and,
\* the transport not failing, every frame the peer reads, before or after such a
\* rejection, verifies and yields the payload that was sent.
C14_OversizeWriteRejectedCleanly ==
    /\ [][\A t \in Threads :
            (Oversized(t) /\ wcall'[t] # wcall[t])
              => /\ wcall'[t].pc = "ret"
                 /\ wcall'[t].err = "errPlainMessageTooLarge"
                 /\ wcall'[t].n = 0
                 /\ wire'["a"] = wire["a"]
                 /\ enc'["a"] = enc["a"]
                 /\ egressMAC'["a"] = egressMAC["a"]
                 /\ hist'.sent = hist.sent]_vars
    /\ []((snappy["a"] /\ ~hist.fault)
            => /\ Len(peer.got) <= Len(hist.sent)
               /\ \A k \in 1..Len(peer.got) :
                     /\ peer.got[k].err = "nil"
                     /\ peer.got[k].msg.Payload = hist.sent[k].Payload)

C14_Witness ==
    /\ snappy["a"]
    /\ ~hist.fault
    /\ wcall["w1"].pc = "ret"
    /\ wcall["w1"].msg = OversizeMsg
    /\ wcall["w1"].err = "errPlainMessageTooLarge"
    /\ wcall["w2"].pc = "ret"
    /\ wcall["w2"].err = "nil"
    /\ wcall["w2"].msg.Payload = snappyEncode(<< 2, 5 >>)
    /\ Len(peer.got) = 2
    /\ peer.got[2].err = "nil"
    /\ peer.got[2].msg.Payload = << 2, 5 >>


\* goroutine t is about to make one of the three conn.Write calls of a frame
Writing(t) == wcall[t].pc \in {"header", "body", "mac"} /\ ~Oversized(t)

\* C15: a frame is three conn.Write calls (header with its MAC, body, frame MAC),
\* made in that order.  A step of writeQKCMsg either completes the next write, which
\* puts that part on the wire, or the write fails: then WriteMsg returns the write
\* error at once with the lock released, having made only the writes before it, and
\* a call that has returned writes nothing more.  WriteMsg returns nil only after
\* all three writes, and a write error only with fewer than three.
C15_FailedWriteEndsFrame ==
    /\ [][\A t \in Threads :
            (Writing(t) /\ wcall'[t] # wcall[t])
              => \/ /\ wcall'[t].n = wcall[t].n + 1
                    /\ Len(wire'["a"]) > Len(wire["a"]) \/ wcall[t].pc = "body"
                    /\ wcall'[t].err = "nil"
                    /\ wcall'[t].pc = (CASE wcall[t].pc = "header" -> "body"
                                         [] wcall[t].pc = "body" -> "mac"
                                         [] OTHER -> "ret")
                 \/ /\ wcall'[t].n = wcall[t].n
                    /\ wire'["a"] = wire["a"]
                    /\ wcall'[t].pc = "ret"
                    /\ wcall'[t].err = "write error"
                    /\ wmu' = "free"]_vars
    /\ [][\A t \in Threads : wcall[t].pc = "ret" => wcall'[t] = wcall[t]]_vars
    /\ [][Len(wire'["a"]) > Len(wire["a"])
            => \E t \in Threads : Writing(t) /\ wmu = t /\ wcall'[t].n = wcall[t].n + 1]_vars
    /\ [](\A t \in Threads :
            /\ wcall[t].pc = "header" => wcall[t].n = 0
            /\ wcall[t].pc = "body" => wcall[t].n = 1
            /\ wcall[t].pc = "mac" => wcall[t].n = 2
            /\ (wcall[t].pc = "ret" /\ wcall[t].err = "nil") => wcall[t].n = 3
            /\ (wcall[t].pc = "ret" /\ wcall[t].err = "write error") => wcall[t].n < 3)

C15_Witness ==
    /\ wcall["w1"].pc = "ret"
    /\ wcall["w1"].err = "write error"
    /\ wcall["w1"].n = 1
    /\ wcall["w2"].pc = "ret"
    /\ wcall["w2"].err = "write error"
    /\ wcall["w2"].n = 2
    /\ wmu = "free"


\* C16: whatever Msg is passed to WriteMsg, the length the header of its frame
\* declares is the number of body bytes written after it, and so, the transport not
\* failing, the peer reads every frame aligned: each read verifies and yields the
\* payload of the Msg sent.
C16_HeaderLengthIsBodyLength ==
    /\ \A t \in Threads :
          wcall[t].n >= 1 => wcall[t].msg.Size = Len(wcall[t].msg.Payload)
    /\ ~hist.fault
          => \A k \in 1..Len(peer.got) :
               /\ k <= Len(hist.sent)
               /\ peer.got[k].err = "nil"
               /\ peer.got[k].msg.Payload = hist.sent[k].Payload


\* C17: over a stream that does not fail, the well-formed Msgs one endpoint writes
\* are read by the other in the order written, each read passing both MAC checks
\* and yielding the payload sent; after its k-th frame the reader's ingress cipher
\* and MAC state is the writer's egress state after writing the first k Msgs, and
\* once everything written has been read the two states are equal.  This holds for
\* the frames a writes to b and for those b writes to a.
C17_FramesInOrderInLockstep ==
    /\ []((~hist.fault /\ AllWellFormed)
            => /\ Len(peer.got) <= Len(hist.sent)
               /\ \A k \in 1..Len(peer.got) :
                     /\ peer.got[k].err = "nil"
                     /\ peer.got[k].msg.Payload = hist.sent[k].Payload
               /\ \E w \in { WriteOnlyRun(snappy["a"], hist.sent, Len(peer.got)) } :
                     dec["b"] = w.enc /\ ingressMAC["b"] = w.mac
               /\ (wire["a"] = << >> /\ wmu = "free")
                     => /\ Len(peer.got) = Len(hist.sent)
                        /\ dec["b"] = enc["a"]
                        /\ ingressMAC["b"] = egressMAC["a"])
    /\ [](/\ Len(hist.got) <= Len(peer.sent)
          /\ \A k \in 1..Len(hist.got) :
                /\ hist.got[k].err = "nil"
                /\ hist.got[k].msg.Payload = peer.sent[k].body
          /\ (wire["b"] = << >> /\ rmu = "free")
                => /\ Len(hist.got) = Len(peer.sent)
                   /\ dec["a"] = enc["b"]
                   /\ ingressMAC["a"] = egressMAC["b"])

C17_Witness ==
    /\ ~hist.fault
    /\ hist.sent = << hello, NewMsg(<< >>), NewMsg(<< 2, 5 >>) >>
    /\ Len(peer.got) = 3
    /\ peer.got[2] = [err |-> "nil", msg |-> NewMsg(<< >>)]
    /\ peer.got[3] = [err |-> "nil", msg |-> NewMsg(<< 2, 5 >>)]
    /\ dec["b"] = enc["a"]
    /\ ingressMAC["b"] = egressMAC["a"]
    /\ Len(hist.got) = 1
    /\ dec["a"] = enc["b"]
    /\ ingressMAC["a"] = egressMAC["b"]


\* the bytes of the first k frames of msgs, written one whole frame after the other
RECURSIVE Stream(_, _, _)
Stream(s, msgs, k) ==
    IF k = 0
    THEN << >>
    ELSE LET p == WriteOnlyRun(s, msgs, k - 1)
             f == writeQKCMsg(p.enc, p.mac, s, msgs[k])
         IN  Stream(s, msgs, k - 1) \o f.header \o f.body \o f.trailer

\* the goroutines inside writeQKCMsg
InFrame == { t \in Threads : wcall[t].pc \in {"header", "body", "mac"} }

\* the bytes of the frame being written that are not yet on the wire
Pending ==
    IF \E t \in InFrame : wcall[t].pc = "body"
    THEN Len(wcall[CHOOSE t \in InFrame : wcall[t].pc = "body"].msg.Payload) + 16
    ELSE IF \E t \in InFrame : wcall[t].pc = "mac" THEN 16 ELSE 0


\* C18: WriteMsg calls made concurrently on one connection write their frames one
\* after the other.  At most one goroutine is inside writeQKCMsg, and it holds the
\* write lock from before its header until its frame MAC is written or a write
\* fails; only that goroutine puts bytes on the wire or moves the egress cipher and
\* MAC; a frame begins only when no other is in progress.  So, the transport not
\* failing, the wire holds a contiguous stretch of the whole frames of the Msgs in
\* the order their headers were written, and between frames the egress state is the
\* one left by writing those Msgs one by one.
C18_WritesDoNotInterleave ==
    /\ [](/\ Cardinality(InFrame) <= 1
          /\ InFrame = {} <=> wmu = "free"
          /\ \A t \in InFrame : wmu = t)
    /\ [][\A t \in Threads :
            (wcall[t].pc = "lock" /\ wcall'[t].pc = "header") => InFrame = {}]_vars
    /\ [][(\/ enc'["a"] # enc["a"]
           \/ egressMAC'["a"] # egressMAC["a"]
           \/ wire'["a"] # wire["a"] /\ Len(wire'["a"]) >= Len(wire["a"]))
            => \E t \in InFrame :
                 /\ wmu = t
                 /\ wcall'[t] # wcall[t]
                 /\ \A u \in Threads \ {t} : wcall'[u] = wcall[u]]_vars
    /\ [](~hist.fault
            => \E full \in { Stream(snappy["a"], hist.sent, Len(hist.sent)) } :
                 /\ Pending <= Len(full)
                 /\ \E i \in 0..(Len(full) - Pending) :
                       wire["a"] = SubSeq(full, i + 1, Len(full) - Pending))
    /\ []((~hist.fault /\ wmu = "free")
            => \E w \in { WriteOnlyRun(snappy["a"], hist.sent, Len(hist.sent)) } :
                 enc["a"] = w.enc /\ egressMAC["a"] = w.mac)

\* one sender has written its header and body and holds the lock, the other has
\* called WriteMsg and waits; the first sender's frame so far is the end of the wire
C18_Witness ==
    /\ ~hist.fault
    /\ wmu = "w1"
    /\ wcall["w1"].pc = "mac"
    /\ wcall["w1"].msg.Payload # << >>
    /\ wcall["w2"].pc = "lock"
    /\ Len(hist.sent) = 2
    /\ Len(peer.got) = 1
    /\ Len(wire["a"]) = 32 + Len(wcall["w1"].msg.Payload)


\* opcodes with a handler in both maps
InBothMaps == OPNonRPCMap \cap OpRPCMap

\* C19: the dispatcher's step for a message whose opcode has a handler in the
\* fire-and-forget map and in the RPC map makes exactly one call, to the
\* fire-and-forget handler with the message's opcode and data; no call to an RPC
\* handler is ever made for such an opcode.
C19_BothMapsFireAndForgetOnly ==
    /\ [][(pc = "handle" /\ cur.op \in InBothMaps /\ pc' # pc)
            => calls' = Append(calls, [kind |-> "nonrpc", op |-> cur.op,
                                       data |-> cur.data])]_vars
    /\ [](\A i \in 1..Len(calls) :
            calls[i].op \in InBothMaps => calls[i].kind = "nonrpc")

C19_Witness ==
    /\ pc = "run"
    /\ Len(hist.got) = 2
    /\ hist.got[2].err = "nil"
    /\ hist.got[2].msg.Payload = << 4, 0, 7 >>
    /\ calls = << [kind |-> "nonrpc", op |-> 4, data |-> << 7 >>] >>


\* what UnmarshalJSON made of the text MarshalJSON wrote has the fields of the
\* SlaveConfig written, the strings compared when strs is TRUE
SameConfig(strs) ==
    /\ slave.err = "nil"
    /\ slave.out.Port = slave.s.Port
    /\ Len(slave.out.ChainMaskList) = Len(slave.s.ChainMaskList)
    /\ \A i \in 1..Len(slave.s.ChainMaskList) :
          GetMask(slave.out.ChainMaskList[i]) = GetMask(slave.s.ChainMaskList[i])
    /\ slave.out.WSPort = DefaultWSPort
    /\ strs => (slave.out.IP = slave.s.IP /\ slave.out.ID = slave.s.ID)

\* C20 as stated: UnmarshalJSON of the text MarshalJSON wrote for a SlaveConfig
\* gives a SlaveConfig with the same host, port, id and chain masks in the same
\* order, and the default websocket port whatever it was.
C20_RoundTripAnyConfig == slave.pc = "done" => SameConfig(TRUE)

\* C20, amended: the same for every SlaveConfig whose host and id are valid UTF-8;
\* for any SlaveConfig the round trip succeeds and gives the same port and chain
\* masks in the same order and the default websocket port, and a host or id that is
\* not valid UTF-8 comes back with U+FFFD in the place of each offending byte.
C20_RoundTripValidStrings ==
    slave.pc = "done"
      => /\ SameConfig(ValidUTF8(slave.s.IP) /\ ValidUTF8(slave.s.ID))
         /\ ValidUTF8(slave.s.IP) => slave.out.IP = slave.s.IP
         /\ ValidUTF8(slave.s.ID) => slave.out.ID = slave.s.ID
         /\ slave.s.IP = << 255 >> => slave.out.IP = << 239, 191, 189 >>
         /\ slave.s.ID = << 65, 255 >> => slave.out.ID = << 65, 239, 191, 189 >>

C20_Witness ==
    /\ slave.pc = "done"
    /\ slave.err = "nil"
    /\ slave.s.IP = << 34, 92, 60 >>
    /\ slave.s.ID = << 10 >>
    /\ slave.s.Port = 38392
    /\ slave.s.WSPort = 0
    /\ slave.s.ChainMaskList = << NewChainMask(65536), NewChainMask(1) >>
    /\ slave.out = [slave.s EXCEPT !.WSPort = DefaultWSPort]

=============================================================================
